---- MODULE Spec2Model ----
(***************************************************************************)
(* A model of the ONVIF client library: the WS-Discovery prober            *)
(* (discovery.go), the SOAP transport (soap.go), the fault classifier and  *)
(* the namespace-agnostic extractor (users.go) and the client operations   *)
(* built on them (users.go, media.go, osd.go, imaging.go).                 *)
(*                                                                         *)
(* Text is a sequence of one-character strings.  Indices follow Go: they   *)
(* are 0-based, Slice(s, a, b) is s[a:b] and Index returns -1 when the     *)
(* pattern does not occur.                                                 *)
(***************************************************************************)
EXTENDS Integers, Sequences, FiniteSets, TLC

VARIABLES
    theCamera,  \* the Camera the client operations are called on
    options,    \* DiscoverCameras: the options of the session
    dstate,     \* DiscoverCameras: the step the session has reached
    now,        \* DiscoverCameras: the time since the call started, in seconds
    deadline,   \* DiscoverCameras: the read deadline of the connection
    probeSent,  \* DiscoverCameras: the probe has left for the multicast group
    lastRead,   \* DiscoverCameras: what the last pass of the read loop read
    cameras,    \* DiscoverCameras: the candidates accumulated by the read loop
    dresult,    \* DiscoverCameras: what the call returned (or that it panicked)
    call,       \* the last client operation: its inputs and what it returned
    fn,         \* the last application of a parser function: input and output
    theClient,  \* the Client the concurrent requests are sent with
    clock,      \* what time.Now() returns, in nanoseconds
    mem,        \* the DiscoveryOptions two concurrent calls are passed, word by word
    procs       \* the goroutines of two concurrent calls: position and locals

vars == <<theCamera, options, dstate, now, deadline, probeSent, lastRead, cameras, dresult, call,
          fn, theClient, clock, mem, procs>>

\* the variables of two concurrent calls
cvars == <<theClient, clock, mem, procs>>

\* the variables of a discovery session
dvars == <<options, dstate, now, deadline, probeSent, lastRead, cameras, dresult>>

----------------------------------------------------------------------------
(* Go's strings package, on sequences of characters *)

Min(set) == CHOOSE x \in set : \A y \in set : x <= y

Max(set) == CHOOSE x \in set : \A y \in set : x >= y

\* s[a:b]
Slice(s, a, b) == SubSeq(s, a + 1, b)

\* s[a:]
From(s, a) == SubSeq(s, a + 1, Len(s))

\* s[i]
At(s, i) == s[i + 1]

\* pat occurs in s at 0-based offset i
HasAt(s, pat, i) == \A j \in 1..Len(pat) : s[i + j] = pat[j]

\* strings.Index
Index(s, pat) ==
    LET hits == {i \in 0..(Len(s) - Len(pat)) : HasAt(s, pat, i)}
    IN  IF hits = {} THEN -1 ELSE Min(hits)

\* strings.Contains
Contains(s, pat) == \E i \in 0..(Len(s) - Len(pat)) : HasAt(s, pat, i)

----------------------------------------------------------------------------
(* Errors: the format string that built the error, the text and the HTTP   *)
(* status it carries, and the prefix a caller wrapped it in.               *)

NilErr == [kind |-> "nil", msg |-> <<>>, status |-> 0, wrap |-> ""]

Errorf(kind) == [kind |-> kind, msg |-> <<>>, status |-> 0, wrap |-> ""]

ErrorfMsg(kind, msg) == [kind |-> kind, msg |-> msg, status |-> 0, wrap |-> ""]

ErrorfStatus(kind, status) == [kind |-> kind, msg |-> <<>>, status |-> status, wrap |-> ""]

\* fmt.Errorf("<prefix>: %v", err)
Wrap(prefix, err) == [err EXCEPT !.wrap = prefix]

----------------------------------------------------------------------------
(* users.go: fault classifier and namespace-agnostic extractor *)

\* the walk back from a ":Name>" marker looks at fewer than this many characters
WalkBack == 20

containsSOAPFault(resp) ==
    \/ Contains(resp, <<":", "F", "a", "u", "l", "t", ">">>) \/ Contains(resp, <<":", "F", "a", "u", "l", "t", " ">>)
    \/ Contains(resp, <<"<", "F", "a", "u", "l", "t", ">">>) \/ Contains(resp, <<"<", "F", "a", "u", "l", "t", " ">>)

\* for i := idx - 1; i >= 0 && i > idx-20; i-- { if s[i] == '<' { openIdx = i; break } }
walkBackToLt(s, idx) ==
    LET found == {i \in 0..(idx - 1) : i > idx - WalkBack /\ At(s, i) = "<"}
    IN  IF found = {} THEN -1 ELSE Max(found)

\* extractBetweenTags, lines 396-421: the offset of the opening tag, or -1
openTagIndex(s, localName) ==
    LET i1 == Index(s, <<"<">> \o localName \o <<">">>)
        i2 == Index(s, <<"<">> \o localName \o <<" ">>)
        idx == Index(s, <<":">> \o localName \o <<">">>)
    IN  IF i1 # -1 THEN i1
        ELSE IF i2 # -1 THEN i2
        ELSE IF idx # -1 THEN walkBackToLt(s, idx)
        ELSE -1

\* extractBetweenTags, lines 434-440: the offset of the closing marker in rest
closeMarkerIndex(rest, localName) ==
    LET c1 == Index(rest, <<":">> \o localName \o <<">">>)
    IN  IF c1 # -1 THEN c1 ELSE Index(rest, <<"<", "/">> \o localName \o <<">">>)

\* extractBetweenTags, lines 441-445
contentUpTo(s, contentStart, closeIdx) ==
    IF closeIdx = -1 THEN <<>> ELSE Slice(s, contentStart, contentStart + closeIdx)

\* extractBetweenTags, lines 434-445, with contentStart computed
contentFrom(s, localName, contentStart) ==
    contentUpTo(s, contentStart, closeMarkerIndex(From(s, contentStart), localName))

\* extractBetweenTags, lines 423-445, with openIdx computed
extractAfterOpen(s, localName, openIdx) ==
    IF openIdx = -1 THEN <<>>
    ELSE LET gt == Index(From(s, openIdx), <<">">>)
         IN  IF gt = -1 THEN <<>> ELSE contentFrom(s, localName, gt + openIdx + 1)

extractBetweenTags(s, localName) == extractAfterOpen(s, localName, openTagIndex(s, localName))

\* the first marker of the list, in list order, that occurs in s
firstMarker(s, markers) ==
    LET found == {k \in 1..Len(markers) : Index(s, markers[k]) # -1}
    IN  IF found = {} THEN -1 ELSE Index(s, markers[Min(found)])

\* extractTextElement, lines 517-532, with textStart computed;
\* closeTag := "</" + closeMarker, closeMarker in {":Text>", "</Text>"}
textAfterOpen(s, textStart) ==
    IF textStart = -1 THEN <<>>
    ELSE LET gt == Index(From(s, textStart), <<">">>)
             contentStart == gt + textStart + 1
             e1 == Index(From(s, contentStart), <<"<", "/">> \o <<":", "T", "e", "x", "t", ">">>)
             e2 == Index(From(s, contentStart), <<"<", "/">> \o <<"<", "/", "T", "e", "x", "t", ">">>)
         IN  IF gt = -1 THEN <<>>
             ELSE IF e1 # -1 THEN Slice(s, contentStart, contentStart + e1)
             ELSE IF e2 # -1 THEN Slice(s, contentStart, contentStart + e2)
             ELSE <<>>

extractTextElement(s) ==
    textAfterOpen(s, firstMarker(s, <<<<":", "T", "e", "x", "t", " ">>, <<":", "T", "e", "x", "t", ">">>, <<"<", "T", "e", "x", "t", " ">>, <<"<", "T", "e", "x", "t", ">">>>>))

\* parseSOAPFault, lines 376-380: the text of Reason > Text, or nothing
reasonText(reason) == IF reason # <<>> THEN extractTextElement(reason) ELSE <<>>

\* a classifier that does not read the faultstring
faultstringIgnored(resp, start) == Errorf("SOAP fault in response")

\* parseSOAPFault, lines 383-390, with start computed
faultstringOr(resp, start) ==
    LET fsStart == start + Len(<<"<", "f", "a", "u", "l", "t", "s", "t", "r", "i", "n", "g", ">">>)
        end == IF start # -1 THEN Index(From(resp, fsStart), <<"<", "/", "f", "a", "u", "l", "t", "s", "t", "r", "i", "n", "g", ">">>) ELSE -1
    IN  IF end # -1 THEN ErrorfMsg("SOAP fault: %s", Slice(resp, fsStart, fsStart + end))
        ELSE Errorf("SOAP fault in response")

\* parseSOAPFault, lines 374-390, with the Reason text computed
faultDetail(resp, text) ==
    IF text # <<>> THEN ErrorfMsg("SOAP fault: %s", text)
    ELSE faultstringOr(resp, Index(resp, <<"<", "f", "a", "u", "l", "t", "s", "t", "r", "i", "n", "g", ">">>))

parseSOAPFault(resp) ==
    IF ~containsSOAPFault(resp) THEN NilErr
    ELSE IF Contains(resp, <<"t", "e", "r", ":", "U", "s", "e", "r", "n", "a", "m", "e", "C", "l", "a", "s", "h">>) THEN Errorf("username already exists")
    ELSE IF Contains(resp, <<"t", "e", "r", ":", "U", "s", "e", "r", "n", "a", "m", "e", "M", "i", "s", "s", "i", "n", "g">>) THEN Errorf("username not found")
    ELSE IF Contains(resp, <<"t", "e", "r", ":", "T", "o", "o", "M", "a", "n", "y", "U", "s", "e", "r", "s">>) THEN Errorf("maximum number of users reached")
    ELSE IF Contains(resp, <<"t", "e", "r", ":", "F", "i", "x", "e", "d", "U", "s", "e", "r">>) THEN Errorf("cannot modify or delete fixed user")
    ELSE IF Contains(resp, <<"t", "e", "r", ":", "P", "a", "s", "s", "w", "o", "r", "d">>) THEN Errorf("password does not meet requirements")
    ELSE IF Contains(resp, <<"N", "o", "t", "A", "u", "t", "h", "o", "r", "i", "z", "e", "d">>) \/ Contains(resp, <<"t", "e", "r", ":", "N", "o", "t", "A", "u", "t", "h", "o", "r", "i", "z", "e", "d">>)
         THEN Errorf("not authorized")
    ELSE faultDetail(resp, reasonText(extractBetweenTags(resp, <<"R", "e", "a", "s", "o", "n">>)))

\* the walk back of findTagOpen skips a "<" that starts a closing tag
walkBackToOpen(s, idx) ==
    LET found == {i \in 0..(idx - 1) :
                    /\ i > idx - WalkBack
                    /\ At(s, i) = "<"
                    /\ (i + 1 >= Len(s) \/ At(s, i + 1) # "/")}
    IN  IF found = {} THEN -1 ELSE Max(found)

findTagOpen(s, localName) ==
    LET idx1 == Index(s, <<":">> \o localName \o <<">">>)
        w1 == IF idx1 # -1 THEN walkBackToOpen(s, idx1) ELSE -1
        idx2 == Index(s, <<":">> \o localName \o <<" ">>)
        w2 == IF idx2 # -1 THEN walkBackToOpen(s, idx2) ELSE -1
        p1 == Index(s, <<"<">> \o localName \o <<">">>)
        p2 == Index(s, <<"<">> \o localName \o <<" ">>)
    IN  IF w1 # -1 THEN w1
        ELSE IF w2 # -1 THEN w2
        ELSE IF p1 # -1 THEN p1
        ELSE p2

\* some "<" followed by "/" lies fewer than WalkBack characters before pos
closesBefore(s, pos) ==
    \E j \in 0..(pos - 1) :
        j > pos - WalkBack /\ At(s, j) = "<" /\ j + 1 < Len(s) /\ At(s, j + 1) = "/"

RECURSIVE findPrefixedClose(_, _, _)
\* the loop of findTagClose over the occurrences of ":Name>", from offset i
findPrefixedClose(s, marker, i) ==
    IF i >= Len(s) THEN -1
    ELSE LET idx == Index(From(s, i), marker)
         IN  IF idx = -1 THEN -1
             ELSE IF closesBefore(s, i + idx) THEN i + idx + Len(marker)
             ELSE findPrefixedClose(s, marker, i + idx + Len(marker))

findTagClose(s, localName) ==
    LET pre == findPrefixedClose(s, <<":">> \o localName \o <<">">>, 0)
        closeTag == <<"<", "/">> \o localName \o <<">">>
        idx == Index(s, closeTag)
    IN  IF pre # -1 THEN pre
        ELSE IF idx # -1 THEN idx + Len(closeTag)
        ELSE -1

----------------------------------------------------------------------------
(* Go's strings package, continued: Fields, Split, TrimSpace, Replace *)

Whitespace == {" ", "\t", "\n", "\r"}

\* the k-th smallest offset of a set of offsets
Kth(set, k) == CHOOSE x \in set : Cardinality({y \in set : y < x}) = k - 1

\* strings.Fields: the maximal runs of characters that are no white space,
\* in order
Fields(s) ==
    LET starts == {i \in 1..Len(s) : s[i] \notin Whitespace /\ (i = 1 \/ s[i - 1] \in Whitespace)}
        ends == {i \in 1..Len(s) : s[i] \notin Whitespace /\ (i = Len(s) \/ s[i + 1] \in Whitespace)}
    IN  [k \in 1..Cardinality(starts) |-> SubSeq(s, Kth(starts, k), Kth(ends, k))]

\* strings.Split on a one-character separator: the pieces between the
\* separators, the empty ones too
Split(s, sep) ==
    LET cuts == {i \in 1..Len(s) : s[i] = sep}
        n == Cardinality(cuts)
    IN  [k \in 1..(n + 1) |->
            SubSeq(s, IF k = 1 THEN 1 ELSE Kth(cuts, k - 1) + 1,
                      IF k = n + 1 THEN Len(s) ELSE Kth(cuts, k) - 1)]

\* strings.TrimSpace
TrimSpace(s) ==
    LET keep == {i \in 1..Len(s) : s[i] \notin Whitespace}
    IN  IF keep = {} THEN <<>> ELSE SubSeq(s, Min(keep), Max(keep))

\* strings.Replace(s, old, new, 1), with the offset of old computed
replaceAt(s, old, new, idx) ==
    IF idx = -1 THEN s ELSE Slice(s, 0, idx) \o new \o From(s, idx + Len(old))

ReplaceFirst(s, old, new) == replaceAt(s, old, new, Index(s, old))

\* strings.Replace(s, old, new, -1) for a one-character old and new
ReplaceChar(s, old, new) == [i \in 1..Len(s) |-> IF s[i] = old THEN new ELSE s[i]]

----------------------------------------------------------------------------
(* discovery.go *)

\* DefaultTimeout, in seconds
DefaultTimeout == 5

DefaultMulticastAddr == "239.255.255.250:3702"

\* a scope value that keeps its underscores
scopeValueRaw(scope, marker) == ReplaceFirst(scope, marker, <<>>)

\* the value of a scope: the scope with the marker removed once and every
\* underscore replaced by a space
scopeValue(scope, marker) == ReplaceChar(ReplaceFirst(scope, marker, <<>>), "_", " ")

\* parseScopes, lines 167-177: one scope of the list
parseScope(scope, acc) ==
    IF Contains(scope, <<"o", "n", "v", "i", "f", ":", "/", "/", "w", "w", "w", ".", "o", "n", "v", "i", "f", ".", "o", "r", "g", "/", "n", "a", "m", "e", "/">>)
    THEN [acc EXCEPT !.name = scopeValue(scope, <<"o", "n", "v", "i", "f", ":", "/", "/", "w", "w", "w", ".", "o", "n", "v", "i", "f", ".", "o", "r", "g", "/", "n", "a", "m", "e", "/">>)]
    ELSE IF Contains(scope, <<"o", "n", "v", "i", "f", ":", "/", "/", "w", "w", "w", ".", "o", "n", "v", "i", "f", ".", "o", "r", "g", "/", "l", "o", "c", "a", "t", "i", "o", "n", "/">>)
    THEN [acc EXCEPT !.location = scopeValue(scope, <<"o", "n", "v", "i", "f", ":", "/", "/", "w", "w", "w", ".", "o", "n", "v", "i", "f", ".", "o", "r", "g", "/", "l", "o", "c", "a", "t", "i", "o", "n", "/">>)]
    ELSE IF Contains(scope, <<"o", "n", "v", "i", "f", ":", "/", "/", "w", "w", "w", ".", "o", "n", "v", "i", "f", ".", "o", "r", "g", "/", "h", "a", "r", "d", "w", "a", "r", "e", "/">>)
    THEN [acc EXCEPT !.model = scopeValue(scope, <<"o", "n", "v", "i", "f", ":", "/", "/", "w", "w", "w", ".", "o", "n", "v", "i", "f", ".", "o", "r", "g", "/", "h", "a", "r", "d", "w", "a", "r", "e", "/">>)]
    ELSE acc

RECURSIVE parseScopeList(_, _)
parseScopeList(scopeList, acc) ==
    IF scopeList = <<>> THEN acc
    ELSE parseScopeList(Tail(scopeList), parseScope(TrimSpace(Head(scopeList)), acc))

parseScopes(scopes) ==
    parseScopeList(Split(scopes, " "), [name |-> <<>>, location |-> <<>>, model |-> <<>>])

\* a tag for every case a type matches, not only for the first
profileOfEvery(t) ==
    (IF Contains(t, <<"N", "e", "t", "w", "o", "r", "k", "V", "i", "d", "e", "o", "T", "r", "a", "n", "s", "m", "i", "t", "t", "e", "r">>) THEN <<"Network Video Transmitter">> ELSE <<>>)
    \o (IF Contains(t, <<"D", "e", "v", "i", "c", "e">>) THEN <<"Device">> ELSE <<>>)
    \o (IF Contains(t, <<"M", "e", "d", "i", "a">>) THEN <<"Media">> ELSE <<>>)
    \o (IF Contains(t, <<"P", "T", "Z">>) THEN <<"PTZ">> ELSE <<>>)
    \o (IF Contains(t, <<"A", "n", "a", "l", "y", "t", "i", "c", "s">>) THEN <<"Analytics">> ELSE <<>>)
    \o (IF Contains(t, <<"E", "v", "e", "n", "t", "s">>) THEN <<"Events">> ELSE <<>>)
    \o (IF Contains(t, <<"I", "m", "a", "g", "i", "n", "g">>) THEN <<"Imaging">> ELSE <<>>)
    \o (IF Contains(t, <<"R", "e", "c", "o", "r", "d", "i", "n", "g">>) THEN <<"Recording">> ELSE <<>>)
    \o (IF Contains(t, <<"R", "e", "p", "l", "a", "y">>) THEN <<"Replay">> ELSE <<>>)

\* parseProfiles, lines 188-207: the tag of one type, <<>> when it has none
profileOf(t) ==
    IF Contains(t, <<"N", "e", "t", "w", "o", "r", "k", "V", "i", "d", "e", "o", "T", "r", "a", "n", "s", "m", "i", "t", "t", "e", "r">>) THEN <<"Network Video Transmitter">>
    ELSE IF Contains(t, <<"D", "e", "v", "i", "c", "e">>) THEN <<"Device">>
    ELSE IF Contains(t, <<"M", "e", "d", "i", "a">>) THEN <<"Media">>
    ELSE IF Contains(t, <<"P", "T", "Z">>) THEN <<"PTZ">>
    ELSE IF Contains(t, <<"A", "n", "a", "l", "y", "t", "i", "c", "s">>) THEN <<"Analytics">>
    ELSE IF Contains(t, <<"E", "v", "e", "n", "t", "s">>) THEN <<"Events">>
    ELSE IF Contains(t, <<"I", "m", "a", "g", "i", "n", "g">>) THEN <<"Imaging">>
    ELSE IF Contains(t, <<"R", "e", "c", "o", "r", "d", "i", "n", "g">>) THEN <<"Recording">>
    ELSE IF Contains(t, <<"R", "e", "p", "l", "a", "y">>) THEN <<"Replay">>
    ELSE <<>>

RECURSIVE parseProfileList(_)
parseProfileList(typeList) ==
    IF typeList = <<>> THEN <<>>
    ELSE profileOf(TrimSpace(Head(typeList))) \o parseProfileList(Tail(typeList))

parseProfiles(types) == parseProfileList(Split(types, " "))

\* DiscoverCameras, lines 123-132: the camera of one probe match
cameraOf(match) ==
    [Name |-> parseScopes(match.Scopes).name,
     Address |-> match.XAddrs,
     Profiles |-> parseProfiles(match.Types),
     Model |-> parseScopes(match.Scopes).model,
     Location |-> parseScopes(match.Scopes).location]

RECURSIVE camerasOf(_)
\* DiscoverCameras, lines 122-135: the cameras of the probe matches of a reply
camerasOf(matches) ==
    IF matches = <<>> THEN <<>> ELSE <<cameraOf(Head(matches))>> \o camerasOf(Tail(matches))

\* a deduplication keyed on the whole address field
dedupKeyWholeField(cam) == cam.Address

\* deduplicateCameras, lines 217-218: addresses[0], read only when there is one
dedupKey(cam) == Fields(cam.Address)[1]

\* deduplicateCameras, line 218, panics (index out of range) on a camera
\* whose address has no field
dedupPanics(cams) == \E i \in 1..Len(cams) : Fields(cams[i].Address) = <<>>

\* a map in which a later camera replaces an earlier one with its key
cameraMapLastWins(cams) ==
    [key \in {dedupKey(cams[i]) : i \in DOMAIN cams} |->
        LET last == CHOOSE i \in DOMAIN cams :
                        /\ dedupKey(cams[i]) = key
                        /\ \A j \in DOMAIN cams : dedupKey(cams[j]) = key => j <= i
        IN  cams[last]]

\* a map that holds the first camera of the list only
cameraMapFirstOnly(cams) ==
    [key \in {dedupKey(cams[i]) : i \in {1} \cap DOMAIN cams} |-> cams[1]]

\* deduplicateCameras, lines 216-223: cameraMap, each key with the first
\* camera that has it
cameraMap(cams) ==
    [key \in {dedupKey(cams[i]) : i \in 1..Len(cams)} |->
        cams[Min({i \in 1..Len(cams) : dedupKey(cams[i]) = key})]]

\* the orders in which a range over a map may visit its keys
KeyOrders(m) ==
    {order \in [1..Cardinality(DOMAIN m) -> DOMAIN m] :
        \A i, j \in DOMAIN order : i # j => order[i] # order[j]}

\* deduplicateCameras, lines 225-230: the lists it may return, one for each
\* order in which the range over cameraMap visits the keys
deduplicateCameras(cams) ==
    {[i \in DOMAIN order |-> cameraMap(cams)[order[i]]] : order \in KeyOrders(cameraMap(cams))}

\* DiscoverCameras, lines 70-83: the options the session runs with
normalise(opts) ==
    IF opts.isNil THEN [isNil |-> FALSE, Timeout |-> DefaultTimeout,
                        MulticastAddr |-> DefaultMulticastAddr]
    ELSE [opts EXCEPT
            !.MulticastAddr = IF @ = "" THEN DefaultMulticastAddr ELSE @,
            !.Timeout = IF @ = 0 THEN DefaultTimeout ELSE @]

----------------------------------------------------------------------------
(* soap.go: the transport *)

\* the first address of a field that may hold several
getFirstAddress(address) ==
    IF Len(Fields(address)) > 0 THEN Fields(address)[1] ELSE address

\* resp.StatusCode >= 400 is an HTTP error
HTTPErrorStatus == 400

\* a transport that hands back an empty body of an error status as a body
sendSOAPRequestAnyBody(r) ==
    IF r.fail # "none" THEN [body |-> <<>>, isNil |-> TRUE, err |-> Errorf(r.fail)]
    ELSE [body |-> r.body, isNil |-> FALSE,
          err |-> IF r.status >= 400 THEN ErrorfStatus("HTTP %d: %s", r.status) ELSE NilErr]

\* What the network does with one request: fail names the call that failed
\* ("NewRequest", "Do", "ReadAll") or is "none", and then status and body
\* are the HTTP response.
sendSOAPRequest(r) ==
    IF r.fail # "none" THEN [body |-> <<>>, isNil |-> TRUE, err |-> Errorf(r.fail)]
    ELSE IF r.status >= HTTPErrorStatus
         THEN IF Len(r.body) = 0
              THEN [body |-> <<>>, isNil |-> TRUE,
                    err |-> ErrorfStatus("HTTP %d with empty response", r.status)]
              ELSE [body |-> r.body, isNil |-> FALSE,
                    err |-> ErrorfStatus("HTTP %d: %s", r.status)]
    ELSE [body |-> r.body, isNil |-> FALSE, err |-> NilErr]

----------------------------------------------------------------------------
(* soap.go: the WS-Security token and the envelope of a request.  SHA-1 and *)
(* Base64 are computed as crypto/sha1 and encoding/base64 compute them, on  *)
(* bytes; a uint32 is a pair of 16-bit halves.                              *)

\* []byte(s), for printable ASCII: the table starts at the space (32), and
\* the place of the grave accent (96) is left empty
bytesOf(s) ==
    LET ascii ==
            <<" ", "!", "\"", "#", "$", "%", "&", "'", "(", ")", "*", "+", ",", "-", ".", "/", "0", "1", "2", "3", "4", "5", "6", "7", "8", "9", ":", ";", "<", "=", ">", "?", "@", "A", "B", "C", "D", "E", "F", "G", "H", "I", "J", "K", "L", "M", "N", "O", "P", "Q", "R", "S", "T", "U", "V", "W", "X", "Y", "Z", "[">> \o <<"\\">>
                \o <<"]", "^", "_">> \o <<"">> \o <<"a", "b", "c", "d", "e", "f", "g", "h", "i", "j", "k", "l", "m", "n", "o", "p", "q", "r", "s", "t", "u", "v", "w", "x", "y", "z", "{", "|", "}", "~">>
    IN  [i \in 1..Len(s) |-> 31 + (CHOOSE k \in 1..Len(ascii) : ascii[k] = s[i])]

\* fmt.Sprintf("%d", n) for n >= 0
Itoa(n) ==
    LET width == Min({d \in 1..9 : n < 10^d} \cup {10})
    IN  [i \in 1..width |-> <<"0", "1", "2", "3", "4", "5", "6", "7", "8", "9">>[((n \div 10^(width - i)) % 10) + 1]]

\* time.Unix(0, t).UTC().Format("2006-01-02T15:04:05.000Z") for an instant t,
\* in nanoseconds, of the first ten seconds of the epoch
formatMillis(t) ==
    <<"1", "9", "7", "0", "-", "0", "1", "-", "0", "1", "T", "0", "0", ":", "0", "0", ":", "0">> \o Itoa(t \div 1000000000) \o <<".">>
        \o <<Itoa(1000 + ((t \div 1000000) % 1000))[2]>> \o <<Itoa(1000 + ((t \div 1000000) % 1000))[3]>>
        \o <<Itoa(1000 + ((t \div 1000000) % 1000))[4]>> \o <<"Z">>

\* sha1.New, Write, Sum(nil): the 20 bytes of the SHA-1 of msg (FIPS 180-4)
sha1Sum(msg) ==
    LET \* the bits of two 4-bit numbers combined one by one
        xorTable == [x \in 0..15, y \in 0..15 |->
            ((x + y) % 2) + 2 * (((x \div 2) + (y \div 2)) % 2)
                + 4 * (((x \div 4) + (y \div 4)) % 2) + 8 * (((x \div 8) + (y \div 8)) % 2)]
        andTable == [x \in 0..15, y \in 0..15 |->
            ((x % 2) * (y % 2)) + 2 * (((x \div 2) % 2) * ((y \div 2) % 2))
                + 4 * (((x \div 4) % 2) * ((y \div 4) % 2)) + 8 * ((x \div 8) * (y \div 8))]
        \* a table applied to the four nibbles of two 16-bit numbers
        bits16(table, x, y) ==
            table[x % 16, y % 16] + 16 * table[(x \div 16) % 16, (y \div 16) % 16]
                + 256 * table[(x \div 256) % 16, (y \div 256) % 16]
                + 4096 * table[x \div 4096, y \div 4096]
        xor32(a, b) == <<bits16(xorTable, a[1], b[1]), bits16(xorTable, a[2], b[2])>>
        and32(a, b) == <<bits16(andTable, a[1], b[1]), bits16(andTable, a[2], b[2])>>
        not32(a) == <<65535 - a[1], 65535 - a[2]>>
        or32(a, b) == not32(and32(not32(a), not32(b)))
        \* a + b, modulo 2^32
        add32(a, b) ==
            <<(a[1] + b[1] + ((a[2] + b[2]) \div 65536)) % 65536, (a[2] + b[2]) % 65536>>
        \* bits.RotateLeft32 by n < 16, and by 16 + n
        rotl16(w, n) ==
            <<((w[1] * 2^n) % 65536) + (w[2] \div 2^(16 - n)),
              ((w[2] * 2^n) % 65536) + (w[1] \div 2^(16 - n))>>
        rotl32(w, n) == IF n >= 16 THEN rotl16(<<w[2], w[1]>>, n - 16) ELSE rotl16(w, n)
        init == << <<26437, 8961>>, <<61389, 43913>>, <<39098, 56574>>,
                   <<4146, 21622>>, <<50130, 57840>> >>
        K == << <<23170, 31129>>, <<28377, 60321>>, <<36635, 48348>>, <<51810, 49622>> >>
        \* the message, 0x80, zeros up to 56 modulo 64, and the length in bits
        bitLen == 8 * Len(msg)
        padded ==
            msg \o <<128>> \o [i \in 1..((55 - Len(msg)) % 64) |-> 0]
                \o <<0, 0, 0, 0, bitLen \div 16777216, (bitLen \div 65536) % 256,
                     (bitLen \div 256) % 256, bitLen % 256>>
        \* w[t] of a block, for t >= 16, appended to w[0..t-1]
        next(w) ==
            Append(w, rotl32(xor32(xor32(w[Len(w) - 2], w[Len(w) - 7]),
                                   xor32(w[Len(w) - 13], w[Len(w) - 15])), 1))
        RECURSIVE schedule(_, _)
        \* w extended by n words
        schedule(w, n) ==
            IF n = 1 THEN next(w)
            ELSE LET half == schedule(w, n \div 2)
                 IN  IF Len(half) = Len(w) + (n \div 2)
                     THEN schedule(half, n - (n \div 2))
                     ELSE half
        \* the function of round t
        f(t, b, c, d) ==
            IF t < 20 THEN or32(and32(b, c), and32(not32(b), d))
            ELSE IF t < 40 THEN xor32(xor32(b, c), d)
            ELSE IF t < 60 THEN or32(or32(and32(b, c), and32(b, d)), and32(c, d))
            ELSE xor32(xor32(b, c), d)
        \* round t on the working variables a, b, c, d, e
        round(t, s, w) ==
            << add32(add32(add32(add32(rotl32(s[1], 5), f(t, s[2], s[3], s[4])), s[5]),
                           K[(t \div 20) + 1]), w[t + 1]),
               s[1], rotl32(s[2], 30), s[3], s[4] >>
        RECURSIVE rounds(_, _, _, _)
        \* rounds t, .., t + n - 1
        rounds(t, n, s, w) ==
            IF n = 1 THEN round(t, s, w)
            ELSE LET half == rounds(t, n \div 2, s, w)
                 IN  IF Len(half) = 5
                     THEN rounds(t + (n \div 2), n - (n \div 2), half, w)
                     ELSE half
        \* the block of 64 bytes at offset o
        block(h, o) ==
            LET w == schedule([i \in 1..16 |->
                        <<padded[o + 4 * i - 3] * 256 + padded[o + 4 * i - 2],
                          padded[o + 4 * i - 1] * 256 + padded[o + 4 * i]>>], 64)
                s == rounds(0, 80, h, w)
            IN  [i \in 1..5 |-> add32(h[i], s[i])]
        RECURSIVE blocks(_, _)
        blocks(h, o) == IF o >= Len(padded) THEN h ELSE blocks(block(h, o), o + 64)
        sum == blocks(init, 0)
    IN  [i \in 1..20 |->
            LET half == sum[((i - 1) \div 4) + 1][(((i - 1) % 4) \div 2) + 1]
            IN  IF i % 2 = 1 THEN half \div 256 ELSE half % 256]

\* base64.StdEncoding.EncodeToString
base64Encode(bytes) ==
    LET alphabet == <<"A", "B", "C", "D", "E", "F", "G", "H", "I", "J", "K", "L", "M", "N", "O", "P", "Q", "R", "S", "T", "U", "V", "W", "X", "Y", "Z", "a", "b", "c", "d", "e", "f", "g", "h", "i", "j", "k", "l", "m", "n", "o", "p", "q", "r", "s", "t", "u", "v", "w", "x", "y", "z", "0", "1", "2", "3", "4", "5", "6", "7", "8", "9", "+", "/">>
        byte(i) == IF i <= Len(bytes) THEN bytes[i] ELSE 0
    IN  [k \in 1..(4 * ((Len(bytes) + 2) \div 3)) |->
            LET g == 3 * ((k - 1) \div 4)
                j == (k - 1) % 4
                v == byte(g + 1) * 65536 + byte(g + 2) * 256 + byte(g + 3)
            IN  IF g + j > Len(bytes) THEN "="
                ELSE alphabet[((v \div 64^(3 - j)) % 64) + 1]]

\* the digest with the username hashed in
generatePasswordDigestOfUser(username, password, created, nonceTime) ==
    LET nonceBytes == bytesOf(Itoa(nonceTime))
    IN  [digest |-> base64Encode(sha1Sum(nonceBytes \o bytesOf(formatMillis(created))
                                            \o bytesOf(password) \o bytesOf(username))),
         nonce |-> base64Encode(nonceBytes),
         created |-> formatMillis(created)]

\* generatePasswordDigest, with created the instant time.Now() returns at
\* line 17 and nonceTime the one it returns at line 18
generatePasswordDigest(username, password, created, nonceTime) ==
    LET nonceBytes == bytesOf(Itoa(nonceTime))
    IN  [digest |-> base64Encode(sha1Sum(nonceBytes \o bytesOf(formatMillis(created))
                                            \o bytesOf(password))),
         nonce |-> base64Encode(nonceBytes),
         created |-> formatMillis(created)]

\* sendSOAPRequest, lines 37-45: the Security block
securityBlock(username, token) ==
    <<"\n", "\t", "\t", "<", "S", "e", "c", "u", "r", "i", "t", "y", " ", "x", "m", "l", "n", "s", "=", "\"", "h", "t", "t", "p", ":", "/", "/", "d", "o", "c", "s", ".", "o", "a", "s", "i", "s", "-", "o", "p", "e", "n", ".", "o", "r", "g", "/", "w", "s", "s", "/", "2", "0", "0", "4", "/", "0", "1", "/", "o", "a", "s", "i", "s", "-", "2", "0", "0", "4", "0", "1", "-", "w", "s", "s", "-", "w", "s", "s", "e", "c", "u", "r", "i", "t", "y", "-", "s", "e", "c", "e", "x", "t", "-", "1", ".", "0", ".", "x", "s", "d", "\"", ">", "\n", "\t", "\t", "\t", "<", "U", "s", "e", "r", "n", "a", "m", "e", "T", "o", "k", "e", "n", ">", "\n", "\t", "\t", "\t", "\t", "<", "U", "s", "e", "r", "n", "a", "m", "e", ">">>
        \o username
        \o <<"<", "/", "U", "s", "e", "r", "n", "a", "m", "e", ">", "\n", "\t", "\t", "\t", "\t", "<", "P", "a", "s", "s", "w", "o", "r", "d", " ", "T", "y", "p", "e", "=", "\"", "h", "t", "t", "p", ":", "/", "/", "d", "o", "c", "s", ".", "o", "a", "s", "i", "s", "-", "o", "p", "e", "n", ".", "o", "r", "g", "/", "w", "s", "s", "/", "2", "0", "0", "4", "/", "0", "1", "/", "o", "a", "s", "i", "s", "-", "2", "0", "0", "4", "0", "1", "-", "w", "s", "s", "-", "u", "s", "e", "r", "n", "a", "m", "e", "-", "t", "o", "k", "e", "n", "-", "p", "r", "o", "f", "i", "l", "e", "-", "1", ".", "0", "#", "P", "a", "s", "s", "w", "o", "r", "d", "D", "i", "g", "e", "s", "t", "\"", ">">>
        \o token.digest
        \o <<"<", "/", "P", "a", "s", "s", "w", "o", "r", "d", ">", "\n", "\t", "\t", "\t", "\t", "<", "N", "o", "n", "c", "e", " ", "E", "n", "c", "o", "d", "i", "n", "g", "T", "y", "p", "e", "=", "\"", "h", "t", "t", "p", ":", "/", "/", "d", "o", "c", "s", ".", "o", "a", "s", "i", "s", "-", "o", "p", "e", "n", ".", "o", "r", "g", "/", "w", "s", "s", "/", "2", "0", "0", "4", "/", "0", "1", "/", "o", "a", "s", "i", "s", "-", "2", "0", "0", "4", "0", "1", "-", "w", "s", "s", "-", "s", "o", "a", "p", "-", "m", "e", "s", "s", "a", "g", "e", "-", "s", "e", "c", "u", "r", "i", "t", "y", "-", "1", ".", "0", "#", "B", "a", "s", "e", "6", "4", "B", "i", "n", "a", "r", "y", "\"", ">">>
        \o token.nonce
        \o <<"<", "/", "N", "o", "n", "c", "e", ">", "\n", "\t", "\t", "\t", "\t", "<", "C", "r", "e", "a", "t", "e", "d", " ", "x", "m", "l", "n", "s", "=", "\"", "h", "t", "t", "p", ":", "/", "/", "d", "o", "c", "s", ".", "o", "a", "s", "i", "s", "-", "o", "p", "e", "n", ".", "o", "r", "g", "/", "w", "s", "s", "/", "2", "0", "0", "4", "/", "0", "1", "/", "o", "a", "s", "i", "s", "-", "2", "0", "0", "4", "0", "1", "-", "w", "s", "s", "-", "w", "s", "s", "e", "c", "u", "r", "i", "t", "y", "-", "u", "t", "i", "l", "i", "t", "y", "-", "1", ".", "0", ".", "x", "s", "d", "\"", ">">>
        \o token.created
        \o <<"<", "/", "C", "r", "e", "a", "t", "e", "d", ">", "\n", "\t", "\t", "\t", "<", "/", "U", "s", "e", "r", "n", "a", "m", "e", "T", "o", "k", "e", "n", ">", "\n", "\t", "\t", "<", "/", "S", "e", "c", "u", "r", "i", "t", "y", ">">>

\* a Security block whoever the client is
authHeaderAlways(username, token) == securityBlock(username, token)

\* sendSOAPRequest, lines 35-46
authHeader(username, token) ==
    IF username # <<>> THEN securityBlock(username, token) ELSE <<>>

\* sendSOAPRequest, lines 48-57
soapRequest(c, token, body) ==
    <<"<", "?", "x", "m", "l", " ", "v", "e", "r", "s", "i", "o", "n", "=", "\"", "1", ".", "0", "\"", " ", "e", "n", "c", "o", "d", "i", "n", "g", "=", "\"", "U", "T", "F", "-", "8", "\"", "?", ">", "\n", "<", "s", ":", "E", "n", "v", "e", "l", "o", "p", "e", " ", "x", "m", "l", "n", "s", ":", "s", "=", "\"", "h", "t", "t", "p", ":", "/", "/", "w", "w", "w", ".", "w", "3", ".", "o", "r", "g", "/", "2", "0", "0", "3", "/", "0", "5", "/", "s", "o", "a", "p", "-", "e", "n", "v", "e", "l", "o", "p", "e", "\"", "\n", " ", " ", " ", " ", " ", " ", " ", " ", " ", " ", " ", " ", "x", "m", "l", "n", "s", ":", "t", "d", "s", "=", "\"", "h", "t", "t", "p", ":", "/", "/", "w", "w", "w", ".", "o", "n", "v", "i", "f", ".", "o", "r", "g", "/", "v", "e", "r", "1", "0", "/", "d", "e", "v", "i", "c", "e", "/", "w", "s", "d", "l", "\"", "\n", " ", " ", " ", " ", " ", " ", " ", " ", " ", " ", " ", " ", "x", "m", "l", "n", "s", ":", "t", "r", "t", "=", "\"", "h", "t", "t", "p", ":", "/", "/", "w", "w", "w", ".", "o", "n", "v", "i", "f", ".", "o", "r", "g", "/", "v", "e", "r", "1", "0", "/", "m", "e", "d", "i", "a", "/", "w", "s", "d", "l", "\"", "\n", " ", " ", " ", " ", " ", " ", " ", " ", " ", " ", " ", " ", "x", "m", "l", "n", "s", ":", "t", "t", "=", "\"", "h", "t", "t", "p", ":", "/", "/", "w", "w", "w", ".", "o", "n", "v", "i", "f", ".", "o", "r", "g", "/", "v", "e", "r", "1", "0", "/", "s", "c", "h", "e", "m", "a", "\"", "\n", " ", " ", " ", " ", " ", " ", " ", " ", " ", " ", " ", " ", "x", "m", "l", "n", "s", ":", "t", "i", "m", "g", "=", "\"", "h", "t", "t", "p", ":", "/", "/", "w", "w", "w", ".", "o", "n", "v", "i", "f", ".", "o", "r", "g", "/", "v", "e", "r", "2", "0", "/", "i", "m", "a", "g", "i", "n", "g", "/", "w", "s", "d", "l", "\"", "\n", " ", " ", " ", " ", " ", " ", " ", " ", " ", " ", " ", " ", "x", "m", "l", "n", "s", ":", "t", "r", "2", "=", "\"", "h", "t", "t", "p", ":", "/", "/", "w", "w", "w", ".", "o", "n", "v", "i", "f", ".", "o", "r", "g", "/", "v", "e", "r", "2", "0", "/", "m", "e", "d", "i", "a", "/", "w", "s", "d", "l", "\"", ">", "\n", "\t", "<", "s", ":", "H", "e", "a", "d", "e", "r", ">">>
        \o authHeader(c.Username, token)
        \o <<"<", "/", "s", ":", "H", "e", "a", "d", "e", "r", ">", "\n", "\t", "<", "s", ":", "B", "o", "d", "y", ">">>
        \o body
        \o <<"<", "/", "s", ":", "B", "o", "d", "y", ">", "\n", "<", "/", "s", ":", "E", "n", "v", "e", "l", "o", "p", "e", ">">>

----------------------------------------------------------------------------
(* device.go: GetCapabilities.  xml is what xml.Unmarshal makes of the     *)
(* response: whether it returned nil, and the counts it decoded.           *)

GetCapabilities(camera, r) ==
    LET t == sendSOAPRequest(r)
    IN  IF t.err = NilErr
        THEN [camera EXCEPT
                !.PTZSupport = Contains(t.body, <<"P", "T", "Z", ">">>) /\ Contains(t.body, <<"X", "A", "d", "d", "r">>),
                !.AnalyticsSupport = Contains(t.body, <<"A", "n", "a", "l", "y", "t", "i", "c", "s", ">">>) /\ Contains(t.body, <<"X", "A", "d", "d", "r">>),
                !.counts = IF r.xml.ok THEN r.xml.counts ELSE @]
        ELSE camera

----------------------------------------------------------------------------
(* users.go, media.go, osd.go, imaging.go: the client operations.  Each    *)
(* returns data and err as the Go function does, the calls it made in      *)
(* order (steps) and the camera as the call left it.  dec is what          *)
(* xml.Unmarshal makes of the response body: ok when it returned nil, and  *)
(* the value it decoded.                                                   *)

Ret(data, err, steps, camera) ==
    [data |-> data, err |-> err, steps |-> steps, camera |-> camera]

\* the result of an operation that asked GetCapabilities first (pre) and
\* left the camera as cam
After(pre, cam, ret) == [ret EXCEPT !.steps = pre \o @, !.camera = cam]

\* GetUsers, lines 169-173: the user of one record
userOf(userXML) ==
    [Username |-> extractBetweenTags(userXML, <<"U", "s", "e", "r", "n", "a", "m", "e">>),
     Password |-> <<>>,
     UserLevel |-> extractBetweenTags(userXML, <<"U", "s", "e", "r", "L", "e", "v", "e", "l">>)]

\* GetUsers, lines 175-177
appendUser(users, user) == IF user.Username # <<>> THEN Append(users, user) ELSE users

\* a loop that keeps the record it has just read
restFromRecord(respStr, userStart, userEnd) == From(respStr, userStart)

\* GetUsers, line 179: the text that remains after a record
restAfterRecord(respStr, userStart, userEnd) == From(respStr, userStart + userEnd)

RECURSIVE usersFallback(_, _)
\* GetUsers, lines 164-179, with userStart and userEnd computed
usersRecord(respStr, users, userStart, userEnd) ==
    IF userEnd = -1 THEN users
    ELSE usersFallback(From(respStr, userStart + userEnd),
                       appendUser(users, userOf(Slice(respStr, userStart, userStart + userEnd))))

\* GetUsers, lines 159-179, with userStart computed
usersFrom(respStr, users, userStart) ==
    IF userStart = -1 THEN users
    ELSE usersRecord(respStr, users, userStart,
                     findTagClose(From(respStr, userStart), <<"U", "s", "e", "r">>))

\* the record loop of GetUsers (lines 158-180) over the remaining text
usersFallback(respStr, users) == usersFrom(respStr, users, findTagOpen(respStr, <<"U", "s", "e", "r">>))

GetUsers(camera, r, dec) ==
    LET t == sendSOAPRequest(r)
        fault == parseSOAPFault(t.body)
        users == usersFallback(t.body, <<>>)
    IN  IF t.err # NilErr
        THEN Ret(<<>>, Wrap("failed to get users", t.err), <<"sendSOAPRequest">>, camera)
        ELSE IF fault # NilErr
        THEN Ret(<<>>, fault, <<"sendSOAPRequest", "parseSOAPFault">>, camera)
        ELSE IF dec.ok /\ Len(dec.value) > 0
        THEN Ret(dec.value, NilErr,
                 <<"sendSOAPRequest", "parseSOAPFault", "xml.Unmarshal">>, camera)
        ELSE IF Len(users) = 0 /\ Contains(t.body, <<"U", "s", "e", "r", "n", "a", "m", "e", ">">>)
        THEN Ret(<<>>, Errorf("failed to parse GetUsers response"),
                 <<"sendSOAPRequest", "parseSOAPFault", "xml.Unmarshal", "fallback">>, camera)
        ELSE Ret(users, NilErr,
                 <<"sendSOAPRequest", "parseSOAPFault", "xml.Unmarshal", "fallback">>, camera)

\* CreateUsers, SetUser, DeleteUsers, DeleteOSD: send, then check for a fault
faultCheckedCall(camera, r, prefix) ==
    LET t == sendSOAPRequest(r)
        fault == parseSOAPFault(t.body)
    IN  IF t.err # NilErr
        THEN Ret(<<>>, Wrap(prefix, t.err), <<"sendSOAPRequest">>, camera)
        ELSE Ret(<<>>, fault, <<"sendSOAPRequest", "parseSOAPFault">>, camera)

CreateUsers(camera, r) == faultCheckedCall(camera, r, "failed to create users")

SetUser(camera, r) == faultCheckedCall(camera, r, "failed to set user")

DeleteUsers(camera, r) == faultCheckedCall(camera, r, "failed to delete users")

\* a GetStreamUri that decodes before it looks for a fault
streamUriRequestDecodeFirst(camera, r, dec) ==
    LET t == sendSOAPRequest(r)
        fault == parseSOAPFault(t.body)
    IN  IF t.err # NilErr
        THEN Ret(<<>>, Wrap("failed to get stream URI", t.err), <<"sendSOAPRequest">>, camera)
        ELSE IF dec.ok /\ dec.value # <<>>
        THEN Ret(dec.value, NilErr, <<"sendSOAPRequest", "xml.Unmarshal">>, camera)
        ELSE IF fault # NilErr
        THEN Ret(<<>>, fault, <<"sendSOAPRequest", "xml.Unmarshal", "parseSOAPFault">>, camera)
        ELSE Ret(<<>>, Errorf("no stream URI found in response"),
                 <<"sendSOAPRequest", "xml.Unmarshal", "parseSOAPFault">>, camera)

\* GetStreamUri, lines 140-177
streamUriRequest(camera, r, dec) ==
    LET t == sendSOAPRequest(r)
        fault == parseSOAPFault(t.body)
        uri == extractBetweenTags(t.body, <<"U", "r", "i">>)
    IN  IF t.err # NilErr
        THEN Ret(<<>>, Wrap("failed to get stream URI", t.err), <<"sendSOAPRequest">>, camera)
        ELSE IF fault # NilErr
        THEN Ret(<<>>, fault, <<"sendSOAPRequest", "parseSOAPFault">>, camera)
        ELSE IF dec.ok /\ dec.value # <<>>
        THEN Ret(dec.value, NilErr,
                 <<"sendSOAPRequest", "parseSOAPFault", "xml.Unmarshal">>, camera)
        ELSE IF uri # <<>>
        THEN Ret(uri, NilErr,
                 <<"sendSOAPRequest", "parseSOAPFault", "xml.Unmarshal",
                   "extractBetweenTags">>, camera)
        ELSE Ret(<<>>, Errorf("no stream URI found in response"),
                 <<"sendSOAPRequest", "parseSOAPFault", "xml.Unmarshal",
                   "extractBetweenTags">>, camera)

\* cap is the network's answer to GetCapabilities, sent only while the
\* camera has no MediaURL
GetStreamUri(camera, cap, r, dec) ==
    IF camera.MediaURL = <<>>
    THEN After(<<"GetCapabilities">>, GetCapabilities(camera, cap),
               streamUriRequest(camera, r, dec))
    ELSE streamUriRequest(camera, r, dec)

----------------------------------------------------------------------------
(* device.go and media.go: device information and stream profiles.  The   *)
(* steps of these operations are the requests they issue, in order.       *)

\* strings.ToLower on ASCII text
ToLower(s) ==
    LET upper == <<"A", "B", "C", "D", "E", "F", "G", "H", "I", "J", "K", "L", "M", "N", "O", "P", "Q", "R", "S", "T", "U", "V", "W", "X", "Y", "Z">>
        lower == <<"a", "b", "c", "d", "e", "f", "g", "h", "i", "j", "k", "l", "m", "n", "o", "p", "q", "r", "s", "t", "u", "v", "w", "x", "y", "z">>
    IN  [i \in 1..Len(s) |->
            IF \E k \in 1..26 : upper[k] = s[i]
            THEN lower[CHOOSE k \in 1..26 : upper[k] = s[i]]
            ELSE s[i]]

\* device.go, lines 35-40: the text between the first open and the first
\* close after it, old when one of them is missing
textBetween(respStr, open, close, old) ==
    LET start == Index(respStr, open)
        from == start + Len(open)
        end == IF start # -1 THEN Index(From(respStr, from), close) ELSE -1
    IN  IF start # -1 /\ end # -1 THEN Slice(respStr, from, from + end) ELSE old

\* GetHostname, lines 115-127: <tt:Name> is tried only without a <tds:Name>
hostnameByHand(respStr, old) ==
    IF Index(respStr, <<"<", "t", "d", "s", ":", "N", "a", "m", "e", ">">>) # -1
    THEN textBetween(respStr, <<"<", "t", "d", "s", ":", "N", "a", "m", "e", ">">>, <<"<", "/", "t", "d", "s", ":", "N", "a", "m", "e", ">">>, old)
    ELSE textBetween(respStr, <<"<", "t", "t", ":", "N", "a", "m", "e", ">">>, <<"<", "/", "t", "t", ":", "N", "a", "m", "e", ">">>, old)

GetHostname(camera, r, dec) ==
    LET t == sendSOAPRequest(r)
    IN  IF t.err = NilErr /\ ~Contains(t.body, <<"S", "O", "A", "P", "-", "E", "N", "V", ":", "F", "a", "u", "l", "t">>)
        THEN Ret(<<>>, NilErr, <<"GetHostname">>,
                 IF dec.ok
                 THEN [camera EXCEPT
                         !.Hostname = dec.value.Name,
                         !.HostnameFrom = IF dec.value.FromDHCP THEN "DHCP" ELSE "Manual"]
                 ELSE [camera EXCEPT !.Hostname = hostnameByHand(t.body, @)])
        ELSE Ret(<<>>, NilErr, <<"GetHostname">>, camera)

\* fmt.Sprintf("%02d") and ("%04d") of a number that is not negative
Padded(n, width) ==
    [i \in 1..(width - Len(Itoa(n))) |-> "0"] \o Itoa(n)

\* GetSystemDateTime, lines 166-172: "%04d-%02d-%02d %02d:%02d:%02d UTC"
formatDateTime(d) ==
    Padded(d.Year, 4) \o <<"-">> \o Padded(d.Month, 2) \o <<"-">> \o Padded(d.Day, 2)
        \o <<" ">> \o Padded(d.Hour, 2) \o <<":">> \o Padded(d.Minute, 2) \o <<":">>
        \o Padded(d.Second, 2) \o <<" ", "U", "T", "C">>

GetSystemDateTime(camera, r, dec) ==
    LET t == sendSOAPRequest(r)
    IN  IF t.err = NilErr /\ dec.ok
        THEN Ret(<<>>, NilErr, <<"GetSystemDateAndTime">>,
                 [camera EXCEPT
                    !.TimeZone = dec.value.TZ,
                    !.DateTime = IF dec.value.Year > 0 THEN formatDateTime(dec.value) ELSE @])
        ELSE Ret(<<>>, NilErr, <<"GetSystemDateAndTime">>, camera)

\* GetDeviceInformation, lines 31-67: what xml.Unmarshal decoded, or what
\* the search for the tds: elements finds
deviceInfoOf(respStr, dec) ==
    IF dec.ok THEN dec.value
    ELSE [Manufacturer |-> textBetween(respStr, <<"<", "t", "d", "s", ":", "M", "a", "n", "u", "f", "a", "c", "t", "u", "r", "e", "r", ">">>,
                                       <<"<", "/", "t", "d", "s", ":", "M", "a", "n", "u", "f", "a", "c", "t", "u", "r", "e", "r", ">">>, dec.value.Manufacturer),
          Model |-> textBetween(respStr, <<"<", "t", "d", "s", ":", "M", "o", "d", "e", "l", ">">>, <<"<", "/", "t", "d", "s", ":", "M", "o", "d", "e", "l", ">">>, dec.value.Model),
          SerialNumber |-> textBetween(respStr, <<"<", "t", "d", "s", ":", "S", "e", "r", "i", "a", "l", "N", "u", "m", "b", "e", "r", ">">>,
                                       <<"<", "/", "t", "d", "s", ":", "S", "e", "r", "i", "a", "l", "N", "u", "m", "b", "e", "r", ">">>, dec.value.SerialNumber),
          FirmwareVersion |-> textBetween(respStr, <<"<", "t", "d", "s", ":", "F", "i", "r", "m", "w", "a", "r", "e", "V", "e", "r", "s", "i", "o", "n", ">">>,
                                          <<"<", "/", "t", "d", "s", ":", "F", "i", "r", "m", "w", "a", "r", "e", "V", "e", "r", "s", "i", "o", "n", ">">>,
                                          dec.value.FirmwareVersion),
          HardwareId |-> textBetween(respStr, <<"<", "t", "d", "s", ":", "H", "a", "r", "d", "w", "a", "r", "e", "I", "d", ">">>, <<"<", "/", "t", "d", "s", ":", "H", "a", "r", "d", "w", "a", "r", "e", "I", "d", ">">>,
                                     dec.value.HardwareId)]

\* r and dec answer GetDeviceInformation, hr and hdec GetHostname, dr and
\* ddec GetSystemDateAndTime, cap GetCapabilities
GetDeviceInformation(camera, r, dec, hr, hdec, dr, ddec, cap) ==
    LET t == sendSOAPRequest(r)
        info == deviceInfoOf(t.body, dec)
        informed == IF t.err = NilErr /\ ~Contains(t.body, <<"S", "O", "A", "P", "-", "E", "N", "V", ":", "F", "a", "u", "l", "t">>)
                    THEN [camera EXCEPT
                            !.Manufacturer = info.Manufacturer,
                            !.DeviceModel = info.Model,
                            !.FirmwareVersion = info.FirmwareVersion,
                            !.SerialNumber = info.SerialNumber,
                            !.HardwareId = info.HardwareId]
                    ELSE camera
        named == GetHostname(informed, hr, hdec).camera
        dated == GetSystemDateTime(named, dr, ddec).camera
    IN  Ret(<<>>, NilErr,
            <<"GetDeviceInformation", "GetHostname", "GetSystemDateAndTime", "GetCapabilities">>,
            GetCapabilities(dated, cap))

\* media.go, lines 121-131
resolveMediaURL(camera) ==
    LET address == getFirstAddress(camera.Address)
        mediaURL == ReplaceFirst(address, <<"/", "d", "e", "v", "i", "c", "e", "_", "s", "e", "r", "v", "i", "c", "e">>, <<"/", "m", "e", "d", "i", "a", "_", "s", "e", "r", "v", "i", "c", "e">>)
    IN  IF camera.MediaURL # <<>> THEN camera.MediaURL
        ELSE IF ~Contains(mediaURL, <<"m", "e", "d", "i", "a", "_", "s", "e", "r", "v", "i", "c", "e">>)
        THEN ReplaceFirst(address, <<"/", "o", "n", "v", "i", "f", "/", "d", "e", "v", "i", "c", "e", "_", "s", "e", "r", "v", "i", "c", "e">>, <<"/", "o", "n", "v", "i", "f", "/", "m", "e", "d", "i", "a", "_", "s", "e", "r", "v", "i", "c", "e">>)
        ELSE mediaURL

\* GetStreamProfiles, lines 74-87: the URI of a profile, empty when the
\* request or the decoding of its answer fails
streamURIOf(answer) ==
    IF sendSOAPRequest(answer.r).err = NilErr /\ answer.dec.ok THEN answer.dec.value ELSE <<>>

\* GetStreamProfiles, lines 90-108
streamConfigOf(profile, answer) ==
    [ProfileName |-> profile.Name,
     ProfileToken |-> profile.Token,
     Resolution |-> Itoa(profile.Width) \o <<"x">> \o Itoa(profile.Height),
     Framerate |-> profile.FrameRateLimit,
     Bitrate |-> profile.BitrateLimit,
     Encoding |-> profile.Encoding,
     StreamURI |-> streamURIOf(answer),
     Quality |-> IF profile.Width >= 1920 THEN "Main"
                 ELSE IF profile.Width >= 1280 THEN "Main"
                 ELSE "Sub"]

RECURSIVE streamConfigs(_, _)
\* GetStreamProfiles, lines 56-111: the profiles that have a video encoder
streamConfigs(profiles, answers) ==
    IF profiles = <<>> THEN <<>>
    ELSE IF Head(profiles).EncoderToken = <<>>
    THEN streamConfigs(Tail(profiles), Tail(answers))
    ELSE <<streamConfigOf(Head(profiles), Head(answers))>>
            \o streamConfigs(Tail(profiles), Tail(answers))

RECURSIVE streamSteps(_)
\* a GetStreamUri request for each profile that has a video encoder
streamSteps(profiles) ==
    IF profiles = <<>> THEN <<>>
    ELSE (IF Head(profiles).EncoderToken = <<>> THEN <<>> ELSE <<"GetStreamUri">>)
            \o streamSteps(Tail(profiles))

\* cap answers GetCapabilities, r GetProfiles and answers[i] the
\* GetStreamUri of profile i; dec is what xml.Unmarshal makes of r
GetStreamProfiles(camera, cap, r, dec, answers) ==
    LET asked == camera.MediaURL = <<>>
        cam == IF asked THEN GetCapabilities(camera, cap) ELSE camera
        pre == IF asked THEN <<"GetCapabilities", "GetProfiles">> ELSE <<"GetProfiles">>
        t == sendSOAPRequest(r)
    IN  IF t.err # NilErr
        THEN Ret(<<>>, Wrap("failed to get profiles", t.err), pre, cam)
        ELSE IF ~dec.ok
        THEN Ret(<<>>, Errorf("failed to parse profiles: %v"), pre, cam)
        ELSE Ret(streamConfigs(dec.value, answers), NilErr,
                 pre \o streamSteps(dec.value), cam)

\* UpdateStreamConfiguration, lines 181-234, by the answer ur
UpdateStreamConfiguration(camera, encoderToken, config, ur) ==
    LET t == sendSOAPRequest(ur)
    IN  IF t.err # NilErr
        THEN Ret(<<>>, Wrap("failed to update configuration", t.err),
                 <<"SetVideoEncoderConfiguration">>, camera)
        ELSE IF Contains(t.body, <<"S", "O", "A", "P", "-", "E", "N", "V", ":", "F", "a", "u", "l", "t">>)
        THEN Ret(<<>>, Errorf("SOAP fault in response"),
                 <<"SetVideoEncoderConfiguration">>, camera)
        ELSE Ret(<<>>, NilErr, <<"SetVideoEncoderConfiguration">>, camera)

\* a search for the sub stream that does not take the second stream as one
subStreamByQuality(streams) ==
    LET found == {i \in 1..Len(streams) :
                    \/ streams[i].Quality = "Sub"
                    \/ Contains(ToLower(streams[i].ProfileName), <<"s", "t", "r", "e", "a", "m", "2">>)}
    IN  IF found = {} THEN 0 ELSE Min(found)

\* UpdateSubStream, lines 244-252: the place of the sub stream in streams,
\* counted from 1, and 0 when subStream stays nil
subStream(streams) ==
    LET found == {i \in 1..Len(streams) :
                    \/ streams[i].Quality = "Sub"
                    \/ (Len(streams) >= 2 /\ i - 1 = 1)
                    \/ Contains(ToLower(streams[i].ProfileName), <<"s", "t", "r", "e", "a", "m", "2">>)}
    IN  IF found = {} THEN 0 ELSE Min(found)

\* data is what UpdateSubStream found and sent: the streams, the place of
\* the sub stream and the encoder token of the update
UpdateSubStream(camera, cap, r, dec, answers, config, ur) ==
    LET got == GetStreamProfiles(camera, cap, r, dec, answers)
        streams == got.data
        at == subStream(streams)
        encoderToken == ReplaceFirst(streams[at].ProfileToken, <<"p", "r", "o", "f", "i", "l", "e">>,
                                     <<"v", "i", "d", "e", "o", "e", "n", "c", "o", "d", "e", "r", "_", "c", "o", "n", "f", "i", "g">>)
        update == UpdateStreamConfiguration(got.camera, encoderToken, config, ur)
    IN  IF got.err # NilErr
        THEN Ret([streams |-> <<>>, at |-> 0, encoderToken |-> <<>>],
                 Wrap("failed to get stream profiles", got.err), got.steps, got.camera)
        ELSE IF at = 0
        THEN Ret([streams |-> streams, at |-> 0, encoderToken |-> <<>>],
                 Errorf("no sub stream found"), got.steps, got.camera)
        ELSE Ret([streams |-> streams, at |-> at, encoderToken |-> encoderToken],
                 update.err, got.steps \o update.steps, update.camera)

RECURSIVE osdTokens(_, _)
\* the fallback loop of GetOSDs over the token="..." attributes
osdTokens(remaining, configs) ==
    LET idx == Index(remaining, <<"t", "o", "k", "e", "n", "=", "\"">>)
        start == idx + Len(<<"t", "o", "k", "e", "n", "=", "\"">>)
        end == IF idx # -1 THEN Index(From(remaining, start), <<"\"">>) ELSE -1
        token == Slice(remaining, start, start + end)
    IN  IF idx = -1 \/ end = -1 THEN configs
        ELSE osdTokens(From(remaining, start + end),
                       IF Contains(token, <<"O", "S", "D">>) \/ Contains(token, <<"o", "s", "d">>)
                       THEN Append(configs, [Token |-> token, Type |-> <<>>,
                                              VideoSourceToken |-> <<>>])
                       ELSE configs)

GetOSDs(camera, r, dec) ==
    LET t == sendSOAPRequest(r)
        fault == parseSOAPFault(t.body)
    IN  IF t.err # NilErr
        THEN Ret(<<>>, Wrap("failed to get OSDs", t.err), <<"sendSOAPRequest">>, camera)
        ELSE IF fault # NilErr
        THEN Ret(<<>>, fault, <<"sendSOAPRequest", "parseSOAPFault">>, camera)
        ELSE IF dec.ok /\ Len(dec.value) > 0
        THEN Ret(dec.value, NilErr,
                 <<"sendSOAPRequest", "parseSOAPFault", "xml.Unmarshal">>, camera)
        ELSE Ret(osdTokens(t.body, <<>>), NilErr,
                 <<"sendSOAPRequest", "parseSOAPFault", "xml.Unmarshal", "fallback">>, camera)

\* getVideoSourceToken, lines 29-63
videoSourceRequest(camera, vs) ==
    LET t == sendSOAPRequest(vs)
        token == extractBetweenTags(t.body, <<"t", "o", "k", "e", "n">>)
        idx == Index(t.body, <<"t", "o", "k", "e", "n", "=", "\"">>)
        start == idx + Len(<<"t", "o", "k", "e", "n", "=", "\"">>)
        end == IF idx # -1 THEN Index(From(t.body, start), <<"\"">>) ELSE -1
    IN  IF t.err # NilErr
        THEN Ret(<<>>, Wrap("failed to get video sources", t.err), <<"sendSOAPRequest">>, camera)
        ELSE IF vs.xml.ok /\ Len(vs.xml.tokens) > 0
        THEN Ret(vs.xml.tokens[1], NilErr, <<"sendSOAPRequest", "xml.Unmarshal">>, camera)
        ELSE IF token # <<>>
        THEN Ret(token, NilErr,
                 <<"sendSOAPRequest", "xml.Unmarshal", "extractBetweenTags">>, camera)
        ELSE IF end # -1
        THEN Ret(Slice(t.body, start, start + end), NilErr,
                 <<"sendSOAPRequest", "xml.Unmarshal", "extractBetweenTags">>, camera)
        ELSE Ret(<<>>, Errorf("no video source token found"),
                 <<"sendSOAPRequest", "xml.Unmarshal", "extractBetweenTags">>, camera)

\* vs is the network's answer to GetVideoSources with what xml.Unmarshal
\* makes of it (vs.xml: ok and the tokens of the VideoSources elements);
\* the network answers every GetCapabilities of one call alike (cap)
getVideoSourceToken(camera, cap, vs) ==
    IF camera.MediaURL = <<>>
    THEN After(<<"GetCapabilities">>, GetCapabilities(camera, cap), videoSourceRequest(camera, vs))
    ELSE videoSourceRequest(camera, vs)

\* a nil *ImagingSettings
NilSettings == "nil"

\* GetImagingSettings, lines 78-112
imagingRequest(token, camera, r, dec) ==
    LET t == sendSOAPRequest(r)
        fault == parseSOAPFault(t.body)
        filter == extractBetweenTags(t.body, <<"I", "r", "C", "u", "t", "F", "i", "l", "t", "e", "r">>)
    IN  IF t.err # NilErr
        THEN Ret(NilSettings, Wrap("failed to get imaging settings", t.err),
                 <<"sendSOAPRequest">>, camera)
        ELSE IF fault # NilErr
        THEN Ret(NilSettings, fault, <<"sendSOAPRequest", "parseSOAPFault">>, camera)
        ELSE IF dec.ok /\ dec.value # <<>>
        THEN Ret([VideoSourceToken |-> token, IrCutFilter |-> dec.value], NilErr,
                 <<"sendSOAPRequest", "parseSOAPFault", "xml.Unmarshal">>, camera)
        ELSE Ret([VideoSourceToken |-> token, IrCutFilter |-> filter], NilErr,
                 <<"sendSOAPRequest", "parseSOAPFault", "xml.Unmarshal",
                   "extractBetweenTags">>, camera)

\* GetImagingSettings, lines 68-112, with the result of getVideoSourceToken
imagingWithToken(tok, cap, r, dec) ==
    IF tok.err # NilErr THEN Ret(NilSettings, tok.err, tok.steps, tok.camera)
    ELSE IF tok.camera.ImagingURL = <<>>
    THEN After(tok.steps \o <<"GetCapabilities">>, GetCapabilities(tok.camera, cap),
               imagingRequest(tok.data, tok.camera, r, dec))
    ELSE After(tok.steps, tok.camera, imagingRequest(tok.data, tok.camera, r, dec))

GetImagingSettings(camera, cap, vs, r, dec) ==
    imagingWithToken(getVideoSourceToken(camera, cap, vs), cap, r, dec)

----------------------------------------------------------------------------
(* Inputs of the parser functions: response bodies and XML fragments *)

\* the longest list of fault codes in one generated body
MaxCodes == 2

\* the longest list of sibling elements before or after the element looked for
MaxSiblings == 1

RECURSIVE Concat(_)
Concat(parts) == IF parts = <<>> THEN <<>> ELSE Head(parts) \o Concat(Tail(parts))

SeqsUpTo(set, n) == UNION {[1..k -> set] : k \in 0..n}

\* the start tag of a Fault element, in each of its forms
FaultElements ==
    { <<"<", "s", ":", "F", "a", "u", "l", "t", ">">>, <<"<", "F", "a", "u", "l", "t", ">">>, <<"<", "e", "n", "v", ":", "F", "a", "u", "l", "t", " ", "i", "d", "=", "'", "1", "'", ">">>, <<"<", "F", "a", "u", "l", "t", " ", "i", "d", "=", "'", "1", "'", ">">> }

\* what may stand in its place in a body with no Fault element: nothing, an
\* element whose name only ends in Fault, and text that holds ":Fault "
OtherForms ==
    { <<>>, <<"<", "t", "t", ":", "S", "u", "b", "F", "a", "u", "l", "t", ">">>, <<"<", "t", "t", ":", "N", "a", "m", "e", ">", "L", "i", "n", "e", ":", "F", "a", "u", "l", "t", " ", "3", "<", "/", "t", "t", ":", "N", "a", "m", "e", ">">> }

FaultForms == FaultElements \cup OtherForms

FaultCodes ==
    { <<"t", "e", "r", ":", "U", "s", "e", "r", "n", "a", "m", "e", "C", "l", "a", "s", "h">>, <<"t", "e", "r", ":", "U", "s", "e", "r", "n", "a", "m", "e", "M", "i", "s", "s", "i", "n", "g">>, <<"t", "e", "r", ":", "T", "o", "o", "M", "a", "n", "y", "U", "s", "e", "r", "s">>,
      <<"t", "e", "r", ":", "F", "i", "x", "e", "d", "U", "s", "e", "r">>, <<"t", "e", "r", ":", "P", "a", "s", "s", "w", "o", "r", "d">>, <<"t", "e", "r", ":", "N", "o", "t", "A", "u", "t", "h", "o", "r", "i", "z", "e", "d">> }

\* a Reason element with a nested Text element, under each prefix
ReasonTextDetails ==
    { <<"<", "S", "O", "A", "P", "-", "E", "N", "V", ":", "R", "e", "a", "s", "o", "n", ">", "<", "S", "O", "A", "P", "-", "E", "N", "V", ":", "T", "e", "x", "t", ">", "S", "e", "n", "d", "e", "r", " ", "n", "o", "t", " ", "a", "u", "t", "h", "o", "r", "i", "z", "e", "d", "<", "/", "S", "O", "A", "P", "-", "E", "N", "V", ":", "T", "e", "x", "t", ">", "<", "/", "S", "O", "A", "P", "-", "E", "N", "V", ":", "R", "e", "a", "s", "o", "n", ">">>,
      <<"<", "e", "n", "v", ":", "R", "e", "a", "s", "o", "n", ">", "<", "e", "n", "v", ":", "T", "e", "x", "t", " ", "x", "m", "l", ":", "l", "a", "n", "g", "=", "'", "e", "n", "'", ">", "S", "e", "n", "d", "e", "r", " ", "n", "o", "t", " ", "a", "u", "t", "h", "o", "r", "i", "z", "e", "d", "<", "/", "e", "n", "v", ":", "T", "e", "x", "t", ">", "<", "/", "e", "n", "v", ":", "R", "e", "a", "s", "o", "n", ">">>,
      <<"<", "R", "e", "a", "s", "o", "n", ">", "<", "T", "e", "x", "t", ">", "S", "e", "n", "d", "e", "r", " ", "n", "o", "t", " ", "a", "u", "t", "h", "o", "r", "i", "z", "e", "d", "<", "/", "T", "e", "x", "t", ">", "<", "/", "R", "e", "a", "s", "o", "n", ">">> }

\* the texts of a SOAP 1.1 faultstring
FaultStrings == { <<"b", "a", "d", " ", "r", "e", "q", "u", "e", "s", "t">>, <<"d", "e", "n", "i", "e", "d">> }

FaultstringDetail(t) == <<"<", "f", "a", "u", "l", "t", "s", "t", "r", "i", "n", "g", ">">> \o t \o <<"<", "/", "f", "a", "u", "l", "t", "s", "t", "r", "i", "n", "g", ">">>

\* what may stand before a faultstring: nothing, or a Reason with no Text
NoTextReasons == { <<>>, <<"<", "s", ":", "R", "e", "a", "s", "o", "n", ">", "x", "<", "/", "s", ":", "R", "e", "a", "s", "o", "n", ">">> }

FaultDetails ==
    ReasonTextDetails \cup NoTextReasons
        \cup {r \o FaultstringDetail(t) : r \in NoTextReasons, t \in FaultStrings}

\* form, then the codes in the order given, then the detail
FaultBody(form, codes, detail) == form \o Concat(codes) \o detail

Prefixes == { <<>>, <<"a">>, <<"t", "t">>, <<"S", "O", "A", "P", "-", "E", "N", "V">> }

LocalNames == { <<"U", "r", "i">>, <<"R", "e", "a", "s", "o", "n">>, <<"U", "s", "e", "r", "n", "a", "m", "e">> }

Texts == { <<"x">>, <<"r", "t", "s", "p", ":", "/", "/", "h", "/", "1">>, <<"S", "e", "n", "d", "e", "r", " ", "n", "o", "t", " ", "a", "u", "t", "h", "o", "r", "i", "z", "e", "d">> }

Siblings == { <<"<", "t", "t", ":", "W", "i", "d", "t", "h", ">", "6", "4", "0", "<", "/", "t", "t", ":", "W", "i", "d", "t", "h", ">">>, <<"<", "H", "e", "i", "g", "h", "t", ">", "4", "8", "0", "<", "/", "H", "e", "i", "g", "h", "t", ">">> }

QName(prefix, name) == IF prefix = <<>> THEN name ELSE prefix \o <<":">> \o name

\* <p:Name>text</p:Name>, or <Name>text</Name> when p is empty
Element(prefix, name, text) ==
    <<"<">> \o QName(prefix, name) \o <<">">> \o text
        \o <<"<", "/">> \o QName(prefix, name) \o <<">">>

----------------------------------------------------------------------------
(* Inputs of the client operations: the camera and what the network and    *)
(* xml.Unmarshal answer                                                    *)

\* the longest list of elements in one generated response body
MaxRespParts == 2

\* User elements of a GetUsersResponse: one with a name, one whose name is empty
UserElements ==
    { <<"<", "t", "d", "s", ":", "U", "s", "e", "r", ">", "<", "t", "t", ":", "U", "s", "e", "r", "n", "a", "m", "e", ">", "b", "o", "b", "<", "/", "t", "t", ":", "U", "s", "e", "r", "n", "a", "m", "e", ">", "<", "t", "t", ":", "U", "s", "e", "r", "L", "e", "v", "e", "l", ">", "U", "s", "e", "r", "<", "/", "t", "t", ":", "U", "s", "e", "r", "L", "e", "v", "e", "l", ">", "<", "/", "t", "d", "s", ":", "U", "s", "e", "r", ">">>,
      <<"<", "U", "s", "e", "r", ">", "<", "U", "s", "e", "r", "n", "a", "m", "e", ">", "<", "/", "U", "s", "e", "r", "n", "a", "m", "e", ">", "<", "/", "U", "s", "e", "r", ">">> }

RespParts ==
    { <<"<", "s", ":", "F", "a", "u", "l", "t", ">", "<", "s", ":", "V", "a", "l", "u", "e", ">", "t", "e", "r", ":", "U", "s", "e", "r", "n", "a", "m", "e", "C", "l", "a", "s", "h", "<", "/", "s", ":", "V", "a", "l", "u", "e", ">", "<", "/", "s", ":", "F", "a", "u", "l", "t", ">">>,
      <<"<", "S", "O", "A", "P", "-", "E", "N", "V", ":", "F", "a", "u", "l", "t", ">", "<", "S", "O", "A", "P", "-", "E", "N", "V", ":", "R", "e", "a", "s", "o", "n", ">", "<", "S", "O", "A", "P", "-", "E", "N", "V", ":", "T", "e", "x", "t", ">", "S", "e", "n", "d", "e", "r", " ", "n", "o", "t", " ", "a", "u", "t", "h", "o", "r", "i", "z", "e", "d", "<", "/", "S", "O", "A", "P", "-", "E", "N", "V", ":", "T", "e", "x", "t", ">", "<", "/", "S", "O", "A", "P", "-", "E", "N", "V", ":", "R", "e", "a", "s", "o", "n", ">", "<", "/", "S", "O", "A", "P", "-", "E", "N", "V", ":", "F", "a", "u", "l", "t", ">">>,
      <<"<", "t", "r", "t", ":", "M", "e", "d", "i", "a", "U", "r", "i", ">", "<", "t", "t", ":", "U", "r", "i", ">", "r", "t", "s", "p", ":", "/", "/", "h", "/", "1", "<", "/", "t", "t", ":", "U", "r", "i", ">", "<", "/", "t", "r", "t", ":", "M", "e", "d", "i", "a", "U", "r", "i", ">">>,
      <<"<", "U", "r", "i", ">", "r", "t", "s", "p", ":", "/", "/", "h", "/", "2", "<", "/", "U", "r", "i", ">">>,
      <<"<", "t", "t", ":", "L", "a", "s", "t", "U", "s", "e", "r", "n", "a", "m", "e", ">", "a", "d", "m", "i", "n", "<", "/", "t", "t", ":", "L", "a", "s", "t", "U", "s", "e", "r", "n", "a", "m", "e", ">">>,
      <<"<", "t", "r", "2", ":", "O", "S", "D", "s", " ", "t", "o", "k", "e", "n", "=", "\"", "o", "s", "d", "1", "\"", ">", "<", "/", "t", "r", "2", ":", "O", "S", "D", "s", ">">>,
      <<"<", "I", "r", "C", "u", "t", "F", "i", "l", "t", "e", "r", ">", "A", "U", "T", "O", "<", "/", "I", "r", "C", "u", "t", "F", "i", "l", "t", "e", "r", ">">> } \cup UserElements

RespBodies == {Concat(parts) : parts \in SeqsUpTo(RespParts, MaxRespParts)}

Statuses == {200, 400, 401, 500}

NoXML == [ok |-> FALSE, counts |-> <<0, 0, 0, 0, 0>>, tokens |-> <<>>]

Failure(what) == [fail |-> what, status |-> 0, body |-> <<>>, xml |-> NoXML]

Response(status, body) == [fail |-> "none", status |-> status, body |-> body, xml |-> NoXML]

Responses ==
    {Failure(what) : what \in {"NewRequest", "Do", "ReadAll"}}
        \cup {Response(status, body) : status \in Statuses, body \in RespBodies}

\* answers to GetCapabilities
CapResponses ==
    { Failure("Do"),
      [fail |-> "none", status |-> 200,
       body |-> <<"<", "t", "t", ":", "P", "T", "Z", ">", "<", "t", "t", ":", "X", "A", "d", "d", "r", ">", "h", "t", "t", "p", ":", "/", "/", "h", "/", "p", "t", "z", "<", "/", "t", "t", ":", "X", "A", "d", "d", "r", ">", "<", "/", "t", "t", ":", "P", "T", "Z", ">">>,
       xml |-> [ok |-> TRUE, counts |-> <<1, 0, 1, 0, 1>>, tokens |-> <<>>]] }

\* answers to GetVideoSources
VSResponses ==
    { Failure("Do"),
      [fail |-> "none", status |-> 200,
       body |-> <<"<", "t", "r", "t", ":", "V", "i", "d", "e", "o", "S", "o", "u", "r", "c", "e", "s", " ", "t", "o", "k", "e", "n", "=", "\"", "v", "s", "1", "\"", ">", "<", "/", "t", "r", "t", ":", "V", "i", "d", "e", "o", "S", "o", "u", "r", "c", "e", "s", ">">>,
       xml |-> [ok |-> TRUE, counts |-> <<0, 0, 0, 0, 0>>, tokens |-> <<<<"v", "s", "1">>>>]],
      [fail |-> "none", status |-> 200,
       body |-> <<"<", "s", ":", "F", "a", "u", "l", "t", ">", "<", "s", ":", "R", "e", "a", "s", "o", "n", ">", "<", "s", ":", "T", "e", "x", "t", ">", "S", "e", "n", "d", "e", "r", " ", "n", "o", "t", " ", "a", "u", "t", "h", "o", "r", "i", "z", "e", "d", "<", "/", "s", ":", "T", "e", "x", "t", ">", "<", "/", "s", ":", "R", "e", "a", "s", "o", "n", ">", "<", "/", "s", ":", "F", "a", "u", "l", "t", ">">>,
       xml |-> [ok |-> TRUE, counts |-> <<0, 0, 0, 0, 0>>, tokens |-> <<>>]] }

\* what xml.Unmarshal can make of a body: an error, nothing, or a value
\* whose text the body holds
Decodes(body, zero, values) ==
    {[ok |-> FALSE, value |-> zero], [ok |-> TRUE, value |-> zero]}
        \cup {[ok |-> TRUE, value |-> v.value] : v \in {w \in values : Contains(body, w.text)}}

DecodedUris == {[text |-> <<"r", "t", "s", "p", ":", "/", "/", "h", "/", "1">>, value |-> <<"r", "t", "s", "p", ":", "/", "/", "h", "/", "1">>]}

DecodedUsers ==
    {[text |-> <<"b", "o", "b">>,
      value |-> <<[Username |-> <<"b", "o", "b">>, Password |-> <<>>, UserLevel |-> <<"U", "s", "e", "r">>]>>]}

DecodedOSDs ==
    {[text |-> <<"o", "s", "d", "1">>,
      value |-> <<[Token |-> <<"o", "s", "d", "1">>, Type |-> <<>>, VideoSourceToken |-> <<>>]>>]}

DecodedFilters == {[text |-> <<"A", "U", "T", "O">>, value |-> <<"A", "U", "T", "O">>]}

\* a camera as discovery leaves it, and one whose service URLs the caller set
FreshCamera ==
    [Address |-> <<"h", "t", "t", "p", ":", "/", "/", "1", "0", ".", "0", ".", "0", ".", "5", "/", "o", "n", "v", "i", "f", "/", "d", "e", "v", "i", "c", "e", "_", "s", "e", "r", "v", "i", "c", "e", " ", "h", "t", "t", "p", ":", "/", "/", "[", "f", "e", "8", "0", ":", ":", "1", "]", "/", "o", "n", "v", "i", "f", "/", "d", "e", "v", "i", "c", "e", "_", "s", "e", "r", "v", "i", "c", "e">>,
     Manufacturer |-> <<>>, DeviceModel |-> <<>>, FirmwareVersion |-> <<>>,
     SerialNumber |-> <<>>, HardwareId |-> <<>>,
     Hostname |-> <<>>, HostnameFrom |-> "", TimeZone |-> <<>>, DateTime |-> <<>>,
     MediaURL |-> <<>>, ImagingURL |-> <<>>, PTZSupport |-> FALSE,
     AnalyticsSupport |-> FALSE, counts |-> <<0, 0, 0, 0, 0>>]

ConfiguredCamera ==
    [FreshCamera EXCEPT !.MediaURL = <<"h", "t", "t", "p", ":", "/", "/", "h", "/", "m", "e", "d", "i", "a">>, !.ImagingURL = <<"h", "t", "t", "p", ":", "/", "/", "h", "/", "i", "m", "a", "g", "i", "n", "g">>]

\* GetCapabilities is answered only when it is asked
CapsFor(cam) ==
    IF cam.MediaURL = <<>> \/ cam.ImagingURL = <<>> THEN CapResponses ELSE {Failure("unused")}

----------------------------------------------------------------------------
(* The client operations as actions: one call on the camera *)

\* no operation called, no discovery result, no function applied yet
NoCall == [op |-> "none"]

NoResult == [returned |-> FALSE, panicked |-> FALSE, list |-> <<>>, err |-> NilErr]

\* the read loop has not run yet
NoRead == [kind |-> "none", matches |-> 0]

\* a nil *DiscoveryOptions
NilOptions == [isNil |-> TRUE, Timeout |-> 0, MulticastAddr |-> ""]

\* the goroutines of two concurrent calls
Goroutines == {1, 2}

\* a DiscoveryOptions value in memory: MulticastAddr is a string header of a
\* data pointer and a length, Timeout an int64 of two 32-bit halves
ZeroOptions == [addrPtr |-> "nil", addrLen |-> 0, timeoutHi |-> 0, timeoutLo |-> 0]

\* DefaultMulticastAddr and DefaultTimeout (5 * time.Second, in nanoseconds
\* 1 * 2^32 + 705032704) in memory
DefaultOptions ==
    [addrPtr |-> "DefaultMulticastAddr", addrLen |-> 20, timeoutHi |-> 1, timeoutLo |-> 705032704]

NoToken == [digest |-> <<>>, nonce |-> <<>>, created |-> <<>>]

NoReturn == [panicked |-> FALSE, list |-> <<>>, body |-> <<>>, isNil |-> TRUE, err |-> NilErr]

\* a goroutine that has not been started
IdleGoroutine ==
    [op |-> "none", pc |-> "idle", shared |-> FALSE,
     c |-> [Username |-> <<>>, Password |-> <<>>, Timeout |-> 0, InsecureTLS |-> FALSE],
     created |-> 0, nonceTime |-> 0, token |-> NoToken,
     r |-> [fail |-> "none", status |-> 0, body |-> <<>>, xml |-> NoXML],
     stored |-> {}, addr |-> <<"nil", 0>>, timeout |-> <<0, 0>>, cameras |-> <<>>,
     result |-> NoReturn]

\* no concurrent call is running
NoGoroutines ==
    /\ theClient = IdleGoroutine.c
    /\ clock = 0
    /\ mem = ZeroOptions
    /\ procs = [p \in Goroutines |-> IdleGoroutine]

NoFn == [f |-> "none", in |-> <<>>, arg |-> <<>>, out |-> <<>>]

Called(op, cap, vs, r, dec, ret) ==
    /\ call' = [op |-> op, cap |-> cap, vs |-> vs, resp |-> r, dec |-> dec,
                data |-> ret.data, err |-> ret.err, steps |-> ret.steps]
    /\ theCamera' = ret.camera
    /\ UNCHANGED <<dvars, fn, cvars>>

NoDec == [ok |-> FALSE, value |-> <<>>]

CallGetUsers ==
    /\ call.op = "none"
    /\ \E r \in Responses : \E dec \in Decodes(r.body, <<>>, DecodedUsers) :
         Called("GetUsers", Failure("unused"), Failure("unused"), r, dec,
                GetUsers(theCamera, r, dec))

CallCreateUsers ==
    /\ call.op = "none"
    /\ \E r \in Responses :
         Called("CreateUsers", Failure("unused"), Failure("unused"), r, NoDec,
                CreateUsers(theCamera, r))

CallSetUser ==
    /\ call.op = "none"
    /\ \E r \in Responses :
         Called("SetUser", Failure("unused"), Failure("unused"), r, NoDec,
                SetUser(theCamera, r))

CallDeleteUsers ==
    /\ call.op = "none"
    /\ \E r \in Responses :
         Called("DeleteUsers", Failure("unused"), Failure("unused"), r, NoDec,
                DeleteUsers(theCamera, r))

CallGetStreamUri ==
    /\ call.op = "none"
    /\ \E cap \in CapsFor(theCamera), r \in Responses :
         \E dec \in Decodes(r.body, <<>>, DecodedUris) :
            Called("GetStreamUri", cap, Failure("unused"), r, dec,
                   GetStreamUri(theCamera, cap, r, dec))

CallGetOSDs ==
    /\ call.op = "none"
    /\ \E r \in Responses : \E dec \in Decodes(r.body, <<>>, DecodedOSDs) :
         Called("GetOSDs", Failure("unused"), Failure("unused"), r, dec,
                GetOSDs(theCamera, r, dec))

CallGetImagingSettings ==
    /\ call.op = "none"
    /\ \E cap \in CapsFor(theCamera), vs \in VSResponses, r \in Responses :
         \E dec \in Decodes(r.body, <<>>, DecodedFilters) :
            Called("GetImagingSettings", cap, vs, r, dec,
                   GetImagingSettings(theCamera, cap, vs, r, dec))

Init ==
    /\ theCamera \in {FreshCamera, ConfiguredCamera}
    /\ options = NilOptions /\ dstate = "Idle" /\ now = 0 /\ deadline = 0
    /\ probeSent = FALSE /\ lastRead = NoRead
    /\ cameras = <<>> /\ dresult = NoResult
    /\ call = NoCall
    /\ fn = NoFn
    /\ NoGoroutines

Next ==
    \/ CallGetUsers \/ CallCreateUsers \/ CallSetUser \/ CallDeleteUsers
    \/ CallGetStreamUri \/ CallGetOSDs \/ CallGetImagingSettings

Spec == Init /\ [][Next]_vars

----------------------------------------------------------------------------
(* The device and stream operations as actions: one call on the camera *)

\* the decoding of an answer that xml.Unmarshal rejects, or that was not sent
Undecoded(zero) == [ok |-> FALSE, value |-> zero]

Decoded(value) == [ok |-> TRUE, value |-> value]

NoDeviceInfo ==
    [Manufacturer |-> <<>>, Model |-> <<>>, FirmwareVersion |-> <<>>, SerialNumber |-> <<>>,
     HardwareId |-> <<>>]

\* answers to GetDeviceInformation and what xml.Unmarshal makes of them
DeviceInfoAnswers ==
    LET body == <<"<", "t", "d", "s", ":", "M", "a", "n", "u", "f", "a", "c", "t", "u", "r", "e", "r", ">", "A", "c", "m", "e", "<", "/", "t", "d", "s", ":", "M", "a", "n", "u", "f", "a", "c", "t", "u", "r", "e", "r", ">", "<", "t", "d", "s", ":", "M", "o", "d", "e", "l", ">", "X", "1", "<", "/", "t", "d", "s", ":", "M", "o", "d", "e", "l", ">">>
    IN  { [r |-> Failure("Do"), dec |-> Undecoded(NoDeviceInfo)],
          [r |-> Response(200, body),
           dec |-> Decoded([NoDeviceInfo EXCEPT !.Manufacturer = <<"A", "c", "m", "e">>, !.Model = <<"X", "1">>])],
          [r |-> Response(200, body), dec |-> Undecoded(NoDeviceInfo)],
          [r |-> Response(500, <<"<", "S", "O", "A", "P", "-", "E", "N", "V", ":", "F", "a", "u", "l", "t", ">", "x", "<", "/", "S", "O", "A", "P", "-", "E", "N", "V", ":", "F", "a", "u", "l", "t", ">">>),
           dec |-> Undecoded(NoDeviceInfo)] }

NoHostname == [Name |-> <<>>, FromDHCP |-> FALSE]

\* answers to GetHostname
HostnameAnswers ==
    { [r |-> Failure("Do"), dec |-> Undecoded(NoHostname)],
      [r |-> Response(200, <<"<", "t", "t", ":", "N", "a", "m", "e", ">", "c", "a", "m", "1", "<", "/", "t", "t", ":", "N", "a", "m", "e", ">">>),
       dec |-> Decoded([Name |-> <<"c", "a", "m", "1">>, FromDHCP |-> TRUE])],
      [r |-> Response(200, <<"<", "t", "t", ":", "N", "a", "m", "e", ">", "c", "a", "m", "1", "<", "/", "t", "t", ":", "N", "a", "m", "e", ">">>), dec |-> Undecoded(NoHostname)] }

NoDateTime ==
    [TZ |-> <<>>, Year |-> 0, Month |-> 0, Day |-> 0, Hour |-> 0, Minute |-> 0, Second |-> 0]

\* answers to GetSystemDateAndTime
DateTimeAnswers ==
    { [r |-> Failure("ReadAll"), dec |-> Undecoded(NoDateTime)],
      [r |-> Response(200, <<"<", "t", "t", ":", "T", "Z", ">", "G", "M", "T", "0", "<", "/", "t", "t", ":", "T", "Z", ">", "<", "t", "t", ":", "Y", "e", "a", "r", ">", "2", "0", "2", "4", "<", "/", "t", "t", ":", "Y", "e", "a", "r", ">">>),
       dec |-> Decoded([TZ |-> <<"G", "M", "T", "0">>, Year |-> 2024, Month |-> 3, Day |-> 9,
                        Hour |-> 7, Minute |-> 5, Second |-> 0])],
      [r |-> Response(200, <<"<", "t", "t", ":", "T", "Z", ">", "G", "M", "T", "0", "<", "/", "t", "t", ":", "T", "Z", ">">>),
       dec |-> Decoded([NoDateTime EXCEPT !.TZ = <<"G", "M", "T", "0">>])] }

\* the media service address a device announces
AnnouncedMediaURL == <<"h", "t", "t", "p", ":", "/", "/", "1", "0", ".", "0", ".", "0", ".", "5", "/", "o", "n", "v", "i", "f", "/", "M", "e", "d", "i", "a">>

\* answers to GetCapabilities, one of them with the address of the media service
MediaCapResponses ==
    CapResponses \cup
      { [fail |-> "none", status |-> 200,
         body |-> <<"<", "t", "t", ":", "M", "e", "d", "i", "a", ">", "<", "t", "t", ":", "X", "A", "d", "d", "r", ">">> \o AnnouncedMediaURL \o <<"<", "/", "t", "t", ":", "X", "A", "d", "d", "r", ">", "<", "/", "t", "t", ":", "M", "e", "d", "i", "a", ">">>,
         xml |-> [ok |-> TRUE, counts |-> <<1, 0, 0, 0, 0>>, tokens |-> <<>>]] }

\* GetCapabilities is answered only when it is asked
MediaCapsFor(cam) == IF cam.MediaURL = <<>> THEN MediaCapResponses ELSE {Failure("unused")}

\* the profiles xml.Unmarshal decodes from an answer to GetProfiles
ProfileInputs ==
    { [Token |-> <<"p", "r", "o", "f", "i", "l", "e", "_", "1">>, Name |-> <<"M", "a", "i", "n", "S", "t", "r", "e", "a", "m">>, EncoderToken |-> <<"e", "n", "c", "1">>,
       Encoding |-> <<"H", "2", "6", "4">>, Width |-> 1920, Height |-> 1080,
       FrameRateLimit |-> 25, BitrateLimit |-> 4096],
      [Token |-> <<"p", "r", "o", "f", "i", "l", "e", "_", "2">>, Name |-> <<"S", "u", "b", "S", "t", "r", "e", "a", "m">>, EncoderToken |-> <<"e", "n", "c", "2">>,
       Encoding |-> <<"H", "2", "6", "4">>, Width |-> 640, Height |-> 480,
       FrameRateLimit |-> 10, BitrateLimit |-> 512],
      [Token |-> <<"P", "r", "o", "f", "i", "l", "e", "3">>, Name |-> <<"S", "t", "r", "e", "a", "m", "2">>, EncoderToken |-> <<"e", "n", "c", "3">>,
       Encoding |-> <<"H", "2", "6", "5">>, Width |-> 1280, Height |-> 720,
       FrameRateLimit |-> 15, BitrateLimit |-> 2048],
      [Token |-> <<"p", "r", "o", "f", "i", "l", "e", "_", "4">>, Name |-> <<"A", "u", "d", "i", "o">>, EncoderToken |-> <<>>,
       Encoding |-> <<>>, Width |-> 0, Height |-> 0,
       FrameRateLimit |-> 0, BitrateLimit |-> 0] }

\* the most profiles of an answer to GetProfiles
MaxProfiles == 2

\* answers to GetProfiles
ProfileAnswers ==
    { [r |-> Failure("Do"), dec |-> Undecoded(<<>>)],
      [r |-> Response(200, <<"<", "t", "r", "t", ":", "P", "r", "o", "f", "i", "l", "e", "s">>), dec |-> Undecoded(<<>>)] }
      \cup {[r |-> Response(200, <<"<", "t", "r", "t", ":", "G", "e", "t", "P", "r", "o", "f", "i", "l", "e", "s", "R", "e", "s", "p", "o", "n", "s", "e", "/", ">">>), dec |-> Decoded(profiles)] :
               profiles \in SeqsUpTo(ProfileInputs, MaxProfiles)}

\* answers to the GetStreamUri of a profile
StreamUriAnswers ==
    { [r |-> Failure("Do"), dec |-> Undecoded(<<>>)],
      [r |-> Response(200, <<"<", "t", "t", ":", "U", "r", "i", ">", "r", "t", "s", "p", ":", "/", "/", "h", "/", "1", "<", "/", "t", "t", ":", "U", "r", "i", ">">>), dec |-> Decoded(<<"r", "t", "s", "p", ":", "/", "/", "h", "/", "1">>)] }

\* answers to SetVideoEncoderConfiguration
UpdateResponses ==
    { Failure("Do"), Response(200, <<"<", "t", "r", "t", ":", "S", "e", "t", "V", "i", "d", "e", "o", "E", "n", "c", "o", "d", "e", "r", "C", "o", "n", "f", "i", "g", "u", "r", "a", "t", "i", "o", "n", "R", "e", "s", "p", "o", "n", "s", "e", "/", ">">>),
      Response(200, <<"<", "S", "O", "A", "P", "-", "E", "N", "V", ":", "F", "a", "u", "l", "t", ">", "x", "<", "/", "S", "O", "A", "P", "-", "E", "N", "V", ":", "F", "a", "u", "l", "t", ">">>) }

\* the configuration of the README
UpdateConfigs ==
    { [Resolution |-> [Width |-> 640, Height |-> 480], Framerate |-> 10, Bitrate |-> 1024000,
       Encoding |-> <<"H", "2", "6", "4">>] }

\* the call op(...) was answered r, and its later requests answers and ur
Answered(op, cap, r, dec, answers, ur, ret) ==
    /\ call' = [op |-> op, cap |-> cap, resp |-> r, dec |-> dec, answers |-> answers,
                update |-> ur, data |-> ret.data, err |-> ret.err, steps |-> ret.steps]
    /\ theCamera' = ret.camera
    /\ UNCHANGED <<dvars, fn, cvars>>

CallGetDeviceInformation ==
    /\ call.op = "none"
    /\ \E a \in DeviceInfoAnswers, h \in HostnameAnswers, d \in DateTimeAnswers,
          cap \in MediaCapResponses :
         Answered("GetDeviceInformation", cap, a.r, a.dec, <<h, d>>, Failure("unused"),
                  GetDeviceInformation(theCamera, a.r, a.dec, h.r, h.dec, d.r, d.dec, cap))

CallGetHostname ==
    /\ call.op = "none"
    /\ \E h \in HostnameAnswers :
         Answered("GetHostname", Failure("unused"), h.r, h.dec, <<>>, Failure("unused"),
                  GetHostname(theCamera, h.r, h.dec))

CallGetSystemDateTime ==
    /\ call.op = "none"
    /\ \E d \in DateTimeAnswers :
         Answered("GetSystemDateTime", Failure("unused"), d.r, d.dec, <<>>, Failure("unused"),
                  GetSystemDateTime(theCamera, d.r, d.dec))

CallGetCapabilities ==
    /\ call.op = "none"
    /\ \E cap \in MediaCapResponses :
         Answered("GetCapabilities", cap, cap, Undecoded(<<>>), <<>>, Failure("unused"),
                  Ret(<<>>, NilErr, <<"GetCapabilities">>, GetCapabilities(theCamera, cap)))

CallGetStreamProfiles ==
    /\ call.op = "none"
    /\ \E cap \in MediaCapsFor(theCamera), p \in ProfileAnswers :
         \E answers \in [1..Len(p.dec.value) -> StreamUriAnswers] :
            Answered("GetStreamProfiles", cap, p.r, p.dec, answers, Failure("unused"),
                     GetStreamProfiles(theCamera, cap, p.r, p.dec, answers))

CallUpdateSubStream ==
    /\ call.op = "none"
    /\ \E cap \in MediaCapsFor(theCamera), p \in ProfileAnswers, config \in UpdateConfigs,
          ur \in UpdateResponses :
         \E answers \in [1..Len(p.dec.value) -> StreamUriAnswers] :
            Answered("UpdateSubStream", cap, p.r, p.dec, answers, ur,
                     UpdateSubStream(theCamera, cap, p.r, p.dec, answers, config, ur))

DeviceNext ==
    \/ CallGetDeviceInformation \/ CallGetHostname \/ CallGetSystemDateTime
    \/ CallGetCapabilities \/ CallGetStreamProfiles \/ CallUpdateSubStream
    \/ CallGetUsers

DeviceSpec == Init /\ [][DeviceNext]_vars

----------------------------------------------------------------------------
(* One camera over several calls: what a call leaves on the camera is what *)
(* the next call finds                                                     *)

\* the most calls made on the camera
MaxCalls == 3

\* no GetCapabilities has been answered: ok says whether one was, and url
\* is the media service address of its answer
NotAsked == [ok |-> FALSE, url |-> <<>>]

\* what is known of the device once cap has answered a GetCapabilities
Asked(known, steps, cap) ==
    IF Contains(steps, <<"GetCapabilities">>) /\ sendSOAPRequest(cap).err = NilErr
       /\ Contains(cap.body, <<"<", "t", "t", ":", "M", "e", "d", "i", "a", ">", "<", "t", "t", ":", "X", "A", "d", "d", "r", ">">>)
    THEN [ok |-> TRUE,
          url |-> textBetween(cap.body, <<"<", "t", "t", ":", "M", "e", "d", "i", "a", ">", "<", "t", "t", ":", "X", "A", "d", "d", "r", ">">>, <<"<", "/", "t", "t", ":", "X", "A", "d", "d", "r", ">">>, <<>>)]
    ELSE known

NoCalls ==
    [op |-> "none", n |-> 0, before |-> NotAsked, after |-> NotAsked,
     cap |-> Failure("unused"), resp |-> Failure("unused"), err |-> NilErr, steps |-> <<>>,
     url |-> <<>>]

\* one more call on the camera: url is where its request went
CalledNext(op, cap, r, ret, url) ==
    /\ call.n < MaxCalls
    /\ call' = [op |-> op, n |-> call.n + 1, before |-> call.after,
                after |-> Asked(call.after, ret.steps, cap),
                cap |-> cap, resp |-> r, err |-> ret.err, steps |-> ret.steps, url |-> url]
    /\ theCamera' = ret.camera
    /\ UNCHANGED <<dvars, fn, cvars>>

NextGetCapabilities ==
    \E cap \in MediaCapResponses :
       CalledNext("GetCapabilities", cap, cap,
                  Ret(<<>>, NilErr, <<"GetCapabilities">>, GetCapabilities(theCamera, cap)),
                  getFirstAddress(theCamera.Address))

NextGetStreamProfiles ==
    \E cap \in MediaCapsFor(theCamera), p \in ProfileAnswers :
       /\ Len(p.dec.value) <= 1
       /\ \E answers \in [1..Len(p.dec.value) -> StreamUriAnswers] :
             CalledNext("GetStreamProfiles", cap, p.r,
                        GetStreamProfiles(theCamera, cap, p.r, p.dec, answers),
                        resolveMediaURL(GetStreamProfiles(theCamera, cap, p.r, p.dec,
                                                          answers).camera))

NextGetStreamUri ==
    \E cap \in MediaCapsFor(theCamera), a \in StreamUriAnswers :
       CalledNext("GetStreamUri", cap, a.r, GetStreamUri(theCamera, cap, a.r, a.dec),
                  resolveMediaURL(GetStreamUri(theCamera, cap, a.r, a.dec).camera))

SessionInit ==
    /\ theCamera = FreshCamera
    /\ options = NilOptions /\ dstate = "Idle" /\ now = 0 /\ deadline = 0
    /\ probeSent = FALSE /\ lastRead = NoRead
    /\ cameras = <<>> /\ dresult = NoResult
    /\ call = NoCalls
    /\ fn = NoFn
    /\ NoGoroutines

SessionNext == NextGetCapabilities \/ NextGetStreamProfiles \/ NextGetStreamUri

SessionSpec == SessionInit /\ [][SessionNext]_vars

----------------------------------------------------------------------------
(* The parser functions and the transport applied to one input each *)

ApplyContainsSOAPFault ==
    /\ fn.f = "none"
    /\ \E form \in FaultForms, codes \in SeqsUpTo(FaultCodes, MaxCodes), detail \in FaultDetails :
         fn' = [f |-> "containsSOAPFault",
                in |-> [form |-> form, codes |-> codes, detail |-> detail],
                arg |-> FaultBody(form, codes, detail),
                out |-> containsSOAPFault(FaultBody(form, codes, detail))]
    /\ UNCHANGED <<theCamera, dvars, call, cvars>>

ApplyParseSOAPFault ==
    /\ fn.f = "none"
    /\ \E form \in FaultForms, codes \in SeqsUpTo(FaultCodes, MaxCodes), detail \in FaultDetails :
         fn' = [f |-> "parseSOAPFault",
                in |-> [form |-> form, codes |-> codes, detail |-> detail],
                arg |-> FaultBody(form, codes, detail),
                out |-> parseSOAPFault(FaultBody(form, codes, detail))]
    /\ UNCHANGED <<theCamera, dvars, call, cvars>>

ApplyExtractBetweenTags ==
    /\ fn.f = "none"
    /\ \E prefix \in Prefixes, name \in LocalNames, text \in Texts,
          pre \in SeqsUpTo(Siblings, MaxSiblings), post \in SeqsUpTo(Siblings, MaxSiblings) :
         LET frag == Concat(pre) \o Element(prefix, name, text) \o Concat(post)
         IN  fn' = [f |-> "extractBetweenTags",
                    in |-> [prefix |-> prefix, name |-> name, text |-> text],
                    arg |-> frag,
                    out |-> extractBetweenTags(frag, name)]
    /\ UNCHANGED <<theCamera, dvars, call, cvars>>

\* what follows an element that is never closed: nothing, another element,
\* or an element of the same local name under the prefix other
Tails(other, name) ==
    [nothing |-> <<>>,
     sibling |-> <<"<", "H", "e", "i", "g", "h", "t", ">", "4", "8", "0", "<", "/", "H", "e", "i", "g", "h", "t", ">">>,
     sameName |-> Element(other, name, <<"y">>)]

\* extractBetweenTags on <p:Name>text with no </p:Name> after it
ApplyExtractUnclosed ==
    /\ fn.f = "none"
    /\ \E prefix \in Prefixes, name \in LocalNames, text \in Texts :
       \E other \in Prefixes \ {prefix}, tail \in {"nothing", "sibling", "sameName"} :
         LET frag == <<"<">> \o QName(prefix, name) \o <<">">> \o text
                        \o Tails(other, name)[tail]
         IN  fn' = [f |-> "extractBetweenTags.unclosed",
                    in |-> [prefix |-> prefix, name |-> name, text |-> text,
                            other |-> other, tail |-> tail],
                    arg |-> frag,
                    out |-> extractBetweenTags(frag, name)]
    /\ UNCHANGED <<theCamera, dvars, call, cvars>>

\* extractBetweenTags on <p:Name>..</p:Name> with an element of the same
\* local name under another prefix inside it or after it
ApplyExtractSameName ==
    /\ fn.f = "none"
    /\ \E prefix \in Prefixes, name \in LocalNames, text \in Texts :
       \E other \in Prefixes \ {prefix}, place \in {"nested", "later"} :
         LET second == Element(other, name, <<"y">>)
             content == IF place = "nested" THEN text \o second ELSE text
             frag == Element(prefix, name, content)
                        \o (IF place = "later" THEN second ELSE <<>>)
         IN  fn' = [f |-> "extractBetweenTags.sameName",
                    in |-> [prefix |-> prefix, name |-> name, text |-> content,
                            other |-> other, place |-> place],
                    arg |-> frag,
                    out |-> extractBetweenTags(frag, name)]
    /\ UNCHANGED <<theCamera, dvars, call, cvars>>

\* the instants time.Now() returns, in nanoseconds: two of one millisecond
\* and the first of the next
Instants == {0, 999999, 1000000}

\* the clients NewClient, NewClientWithTimeout and a Client literal make
Clients ==
    [Username : {<<>>, <<"a", "d", "m", "i", "n">>}, Password : {<<>>, <<"p", "w">>},
     Timeout : {0, 10}, InsecureTLS : BOOLEAN]

\* the fragments GetUsers and GetStreamProfiles pass as body
Fragments == { <<"<", "t", "d", "s", ":", "G", "e", "t", "U", "s", "e", "r", "s", "/", ">">>, <<"<", "t", "r", "t", ":", "G", "e", "t", "P", "r", "o", "f", "i", "l", "e", "s", "/", ">">> }

\* what generatePasswordDigest is called with, and the two instants it reads
DigestInputs ==
    {in \in [username : {<<>>, <<"a", "d", "m", "i", "n">>}, password : {<<>>, <<"p", "w">>},
             created : Instants, nonceTime : Instants] : in.created <= in.nonceTime}

\* generatePasswordDigest on each of them, computed once
DigestResults ==
    {[in |-> in,
      token |-> generatePasswordDigest(in.username, in.password, in.created, in.nonceTime)] :
        in \in DigestInputs}

\* what generatePasswordDigest returns for a client at the two instants
tokenFor(username, password, created, nonceTime) ==
    (CHOOSE r \in DigestResults :
        r.in = [username |-> username, password |-> password,
                created |-> created, nonceTime |-> nonceTime]).token

\* generatePasswordDigest applied twice
ApplyGeneratePasswordDigest ==
    /\ fn.f = "none"
    /\ \E first \in DigestResults, second \in DigestResults :
         fn' = [f |-> "generatePasswordDigest",
                in |-> <<first.in, second.in>>,
                arg |-> <<>>,
                out |-> <<first.token, second.token>>]
    /\ UNCHANGED <<theCamera, dvars, call, cvars>>

\* sendSOAPRequest, lines 33-57: the envelope a client builds around a body
ApplySoapRequest ==
    /\ fn.f = "none"
    /\ \E c \in Clients, body \in Fragments, created \in Instants, nonceTime \in Instants :
         /\ created <= nonceTime
         /\ LET token == tokenFor(c.Username, c.Password, created, nonceTime)
            IN  fn' = [f |-> "soapRequest",
                       in |-> [c |-> c, body |-> body],
                       arg |-> token,
                       out |-> soapRequest(c, token, body)]
    /\ UNCHANGED <<theCamera, dvars, call, cvars>>

\* the scopes of a probe match, token by token
ScopeTokens ==
    { <<"o", "n", "v", "i", "f", ":", "/", "/", "w", "w", "w", ".", "o", "n", "v", "i", "f", ".", "o", "r", "g", "/", "n", "a", "m", "e", "/", "F", "r", "o", "n", "t", "_", "D", "o", "o", "r">>,
      <<"o", "n", "v", "i", "f", ":", "/", "/", "w", "w", "w", ".", "o", "n", "v", "i", "f", ".", "o", "r", "g", "/", "n", "a", "m", "e", "/", "L", "o", "b", "b", "y">>,
      <<"o", "n", "v", "i", "f", ":", "/", "/", "w", "w", "w", ".", "o", "n", "v", "i", "f", ".", "o", "r", "g", "/", "l", "o", "c", "a", "t", "i", "o", "n", "/", "B", "a", "c", "k", "_", "Y", "a", "r", "d", "_", "1">>,
      <<"o", "n", "v", "i", "f", ":", "/", "/", "w", "w", "w", ".", "o", "n", "v", "i", "f", ".", "o", "r", "g", "/", "h", "a", "r", "d", "w", "a", "r", "e", "/", "X", "1", "_", "P", "r", "o">>,
      <<"o", "n", "v", "i", "f", ":", "/", "/", "w", "w", "w", ".", "o", "n", "v", "i", "f", ".", "o", "r", "g", "/", "t", "y", "p", "e", "/", "v", "i", "d", "e", "o", "_", "e", "n", "c", "o", "d", "e", "r">>,
      <<"o", "n", "v", "i", "f", ":", "/", "/", "w", "w", "w", ".", "o", "n", "v", "i", "f", ".", "o", "r", "g", "/", "P", "r", "o", "f", "i", "l", "e", "/", "S", "t", "r", "e", "a", "m", "i", "n", "g">>,
      <<"h", "t", "t", "p", ":", "/", "/", "e", "x", "a", "m", "p", "l", "e", ".", "o", "r", "g", "/", "n", "a", "m", "e", "/", "O", "t", "h", "e", "r", "_", "N", "a", "m", "e">>,
      <<>> }

\* the most tokens of a scope list
MaxScopes == 2

\* the types of a probe match, token by token
TypeTokens ==
    { <<"d", "n", ":", "N", "e", "t", "w", "o", "r", "k", "V", "i", "d", "e", "o", "T", "r", "a", "n", "s", "m", "i", "t", "t", "e", "r">>, <<"t", "d", "s", ":", "D", "e", "v", "i", "c", "e">>, <<"t", "r", "t", ":", "M", "e", "d", "i", "a">>, <<"t", "p", "t", "z", ":", "P", "T", "Z">>,
      <<"t", "a", "n", ":", "A", "n", "a", "l", "y", "t", "i", "c", "s">>, <<"t", "e", "v", ":", "E", "v", "e", "n", "t", "s">>, <<"t", "i", "m", "g", ":", "I", "m", "a", "g", "i", "n", "g">>, <<"t", "r", "c", ":", "R", "e", "c", "o", "r", "d", "i", "n", "g">>,
      <<"t", "r", "p", ":", "R", "e", "p", "l", "a", "y">>, <<"t", "n", "s", "1", ":", "D", "e", "v", "i", "c", "e", "M", "e", "d", "i", "a">>, <<"w", "s", "d", "p", ":", "P", "r", "i", "n", "t", "e", "r", "_", "1">>, <<>> }

\* the most tokens of a type list
MaxTypes == 2

RECURSIVE JoinSpaces(_)
\* the tokens of a list, separated by one space
JoinSpaces(tokens) ==
    IF Len(tokens) = 0 THEN <<>>
    ELSE IF Len(tokens) = 1 THEN tokens[1]
    ELSE tokens[1] \o <<" ">> \o JoinSpaces(Tail(tokens))

\* parseScopes applied to a scope list
ApplyParseScopes ==
    /\ fn.f = "none"
    /\ \E tokens \in SeqsUpTo(ScopeTokens, MaxScopes) :
         fn' = [f |-> "parseScopes", in |-> tokens, arg |-> JoinSpaces(tokens),
                out |-> parseScopes(JoinSpaces(tokens))]
    /\ UNCHANGED <<theCamera, dvars, call, cvars>>

\* parseProfiles applied to a type list
ApplyParseProfiles ==
    /\ fn.f = "none"
    /\ \E tokens \in SeqsUpTo(TypeTokens, MaxTypes) :
         fn' = [f |-> "parseProfiles", in |-> tokens, arg |-> JoinSpaces(tokens),
                out |-> parseProfiles(JoinSpaces(tokens))]
    /\ UNCHANGED <<theCamera, dvars, call, cvars>>

\* the bodies the record loop of GetUsers runs on
UserBodies ==
    RespBodies
      \cup {Concat(<<first, first, second>>) : first \in UserElements, second \in UserElements}
      \cup { <<"<", "a", ">", "<", "/", "t", "d", "s", ":", "U", "s", "e", "r", ">", "<", "t", "d", "s", ":", "U", "s", "e", "r", ">", "<", "t", "t", ":", "U", "s", "e", "r", "n", "a", "m", "e", ">", "e", "v", "e", "<", "/", "t", "t", ":", "U", "s", "e", "r", "n", "a", "m", "e", ">">>,
             <<"<", "t", "d", "s", ":", "U", "s", "e", "r", " ", "a", "=", "'", "1", "'", ">", "<", "U", "s", "e", "r", "n", "a", "m", "e", ">", "a", "l", "<", "/", "U", "s", "e", "r", "n", "a", "m", "e", ">", "<", "/", "t", "d", "s", ":", "U", "s", "e", "r", ">", "<", "U", "s", "e", "r", ">">>,
             <<"<", "/", "U", "s", "e", "r", ">", "<", "U", "s", "e", "r", ">", "<", "/", "U", "s", "e", "r", ">", "<", "t", "d", "s", ":", "U", "s", "e", "r", ">", "<", "/", "t", "d", "s", ":", "U", "s", "e", "r", ">">> }

\* GetUsers, line 157: the record loop starts on the whole response
StartUserRecords ==
    /\ fn.f = "none"
    /\ \E body \in UserBodies :
         fn' = [f |-> "GetUsers", in |-> body, arg |-> body,
                out |-> [users |-> <<>>, iterations |-> 0, done |-> FALSE]]
    /\ UNCHANGED <<theCamera, dvars, call, cvars>>

\* GetUsers, lines 158-180: one iteration of the record loop
NextUserRecord ==
    /\ fn.f = "GetUsers" /\ ~fn.out.done
    /\ LET respStr == fn.arg
           userStart == findTagOpen(respStr, <<"U", "s", "e", "r">>)
           userEnd == IF userStart = -1 THEN -1
                      ELSE findTagClose(From(respStr, userStart), <<"U", "s", "e", "r">>)
       IN  IF userStart = -1 \/ userEnd = -1
           THEN fn' = [fn EXCEPT !.out.done = TRUE]
           ELSE fn' = [fn EXCEPT
                         !.arg = restAfterRecord(respStr, userStart, userEnd),
                         !.out.users =
                            appendUser(@, userOf(Slice(respStr, userStart, userStart + userEnd))),
                         !.out.iterations = @ + 1]
    /\ UNCHANGED <<theCamera, dvars, call, cvars>>

ApplySendSOAPRequest ==
    /\ fn.f = "none"
    /\ \E r \in Responses :
         fn' = [f |-> "sendSOAPRequest", in |-> r, arg |-> r.body, out |-> sendSOAPRequest(r)]
    /\ UNCHANGED <<theCamera, dvars, call, cvars>>

----------------------------------------------------------------------------
(* DiscoverCameras, step by step: what the caller passes, what the network *)
(* answers and how time passes                                             *)

\* the most probe matches one session accumulates
MaxCameras == 2

\* the options a caller passes
OptionArgs ==
    {NilOptions,
     [isNil |-> FALSE, Timeout |-> 0, MulticastAddr |-> ""],
     [isNil |-> FALSE, Timeout |-> 1, MulticastAddr |-> "239.255.255.250:3702"]}

\* the probe matches a reply may carry
ProbeMatchInputs ==
    {[XAddrs |-> <<"h", "t", "t", "p", ":", "/", "/", "1", "0", ".", "0", ".", "0", ".", "5", "/", "o", "n", "v", "i", "f", "/", "d", "e", "v", "i", "c", "e", "_", "s", "e", "r", "v", "i", "c", "e">>,
      Scopes |-> <<"o", "n", "v", "i", "f", ":", "/", "/", "w", "w", "w", ".", "o", "n", "v", "i", "f", ".", "o", "r", "g", "/", "n", "a", "m", "e", "/", "F", "r", "o", "n", "t", "_", "D", "o", "o", "r", " ", "o", "n", "v", "i", "f", ":", "/", "/", "w", "w", "w", ".", "o", "n", "v", "i", "f", ".", "o", "r", "g", "/", "h", "a", "r", "d", "w", "a", "r", "e", "/", "X", "1">>,
      Types |-> <<"d", "n", ":", "N", "e", "t", "w", "o", "r", "k", "V", "i", "d", "e", "o", "T", "r", "a", "n", "s", "m", "i", "t", "t", "e", "r">>],
     [XAddrs |-> <<"h", "t", "t", "p", ":", "/", "/", "1", "0", ".", "0", ".", "0", ".", "5", "/", "o", "n", "v", "i", "f", "/", "d", "e", "v", "i", "c", "e", "_", "s", "e", "r", "v", "i", "c", "e", " ", "h", "t", "t", "p", ":", "/", "/", "[", "f", "e", "8", "0", ":", ":", "1", "]", "/", "o", "n", "v", "i", "f", "/", "d", "e", "v", "i", "c", "e", "_", "s", "e", "r", "v", "i", "c", "e">>,
      Scopes |-> <<"o", "n", "v", "i", "f", ":", "/", "/", "w", "w", "w", ".", "o", "n", "v", "i", "f", ".", "o", "r", "g", "/", "n", "a", "m", "e", "/", "B", "a", "c", "k", "_", "D", "o", "o", "r", " ", "o", "n", "v", "i", "f", ":", "/", "/", "w", "w", "w", ".", "o", "n", "v", "i", "f", ".", "o", "r", "g", "/", "l", "o", "c", "a", "t", "i", "o", "n", "/", "Y", "a", "r", "d">>,
      Types |-> <<"d", "n", ":", "N", "e", "t", "w", "o", "r", "k", "V", "i", "d", "e", "o", "T", "r", "a", "n", "s", "m", "i", "t", "t", "e", "r", " ", "t", "d", "s", ":", "D", "e", "v", "i", "c", "e">>],
     [XAddrs |-> <<"h", "t", "t", "p", ":", "/", "/", "1", "0", ".", "0", ".", "0", ".", "6", "/", "o", "n", "v", "i", "f", "/", "d", "e", "v", "i", "c", "e", "_", "s", "e", "r", "v", "i", "c", "e">>,
      Scopes |-> <<>>,
      Types |-> <<>>],
     [XAddrs |-> <<>>,
      Scopes |-> <<"o", "n", "v", "i", "f", ":", "/", "/", "w", "w", "w", ".", "o", "n", "v", "i", "f", ".", "o", "r", "g", "/", "n", "a", "m", "e", "/", "L", "o", "b", "b", "y">>,
      Types |-> <<"d", "n", ":", "N", "e", "t", "w", "o", "r", "k", "V", "i", "d", "e", "o", "T", "r", "a", "n", "s", "m", "i", "t", "t", "e", "r">>],
     [XAddrs |-> <<" ">>,
      Scopes |-> <<"o", "n", "v", "i", "f", ":", "/", "/", "w", "w", "w", ".", "o", "n", "v", "i", "f", ".", "o", "r", "g", "/", "n", "a", "m", "e", "/", "G", "a", "t", "e">>,
      Types |-> <<"t", "d", "s", ":", "D", "e", "v", "i", "c", "e">>]}

\* a setup step that failed: DiscoverCameras returns nil and the error
SetupFailed(kind) ==
    /\ dstate' = "Done"
    /\ dresult' = [returned |-> TRUE, panicked |-> FALSE, list |-> <<>>, err |-> Errorf(kind)]

\* lines 70-88: the options are completed and the multicast address resolved
Resolve ==
    /\ dstate = "Idle"
    /\ options' = normalise(options)
    /\ \E ok \in BOOLEAN :
          IF ok THEN dstate' = "Resolved" /\ UNCHANGED dresult
          ELSE SetupFailed("failed to resolve multicast address: %v")
    /\ UNCHANGED <<theCamera, now, deadline, probeSent, lastRead, cameras, call, fn, cvars>>

\* lines 90-94: the local UDP endpoint is bound
ListenUDP ==
    /\ dstate = "Resolved"
    /\ \E ok \in BOOLEAN :
          IF ok THEN dstate' = "Bound" /\ UNCHANGED dresult
          ELSE SetupFailed("failed to create UDP connection: %v")
    /\ UNCHANGED <<theCamera, options, now, deadline, probeSent, lastRead, cameras, call, fn, cvars>>

\* lines 96-98: the read deadline is set, Timeout from now
SetReadDeadline ==
    /\ dstate = "Bound"
    /\ \E ok \in BOOLEAN :
          IF ok THEN dstate' = "DeadlineSet" /\ deadline' = now + options.Timeout
                     /\ UNCHANGED dresult
          ELSE SetupFailed("failed to set read deadline: %v") /\ UNCHANGED deadline
    /\ UNCHANGED <<theCamera, options, now, probeSent, lastRead, cameras, call, fn, cvars>>

\* lines 100-105: the probe is sent
WriteToUDP ==
    /\ dstate = "DeadlineSet"
    /\ \E ok \in BOOLEAN :
          IF ok THEN dstate' = "Listening" /\ probeSent' = TRUE /\ UNCHANGED dresult
          ELSE SetupFailed("failed to send probe message: %v") /\ UNCHANGED probeSent
    /\ UNCHANGED <<theCamera, options, now, deadline, lastRead, cameras, call, fn, cvars>>

\* a pass of the read loop that ends in continue
Continue(read) ==
    /\ lastRead' = read
    /\ UNCHANGED <<theCamera, options, dstate, now, deadline, probeSent, dresult, call, fn, cvars>>

\* a read loop that returns the error of a failed read
ReadFailedAborts ==
    /\ dstate = "Listening" /\ now < deadline
    /\ lastRead' = [kind |-> "error", matches |-> 0]
    /\ SetupFailed("read failed: %v")
    /\ UNCHANGED <<theCamera, options, now, deadline, probeSent, cameras, call, fn, cvars>>

\* lines 108-114: ReadFromUDP fails with an error that is no timeout
ReadFailed ==
    /\ dstate = "Listening" /\ now < deadline
    /\ Continue([kind |-> "error", matches |-> 0])
    /\ UNCHANGED cameras

\* a read loop that gives up on a datagram that does not decode
ReadMalformedAborts ==
    /\ dstate = "Listening" /\ now < deadline
    /\ lastRead' = [kind |-> "malformed", matches |-> 0]
    /\ SetupFailed("malformed datagram")
    /\ UNCHANGED <<theCamera, options, now, deadline, probeSent, cameras, call, fn, cvars>>

\* lines 116-120: a datagram that xml.Unmarshal rejects
ReadMalformed ==
    /\ dstate = "Listening" /\ now < deadline
    /\ Continue([kind |-> "malformed", matches |-> 0])
    /\ UNCHANGED cameras

\* lines 116-135: a datagram that decodes, with its probe matches
ReadProbeMatches ==
    /\ dstate = "Listening" /\ now < deadline
    /\ \E matches \in SeqsUpTo(ProbeMatchInputs, MaxCameras - Len(cameras)) :
          /\ cameras' = cameras \o camerasOf(matches)
          /\ Continue([kind |-> "decoded", matches |-> Len(matches)])

\* lines 108-112 and 138: the read times out, the loop ends and the
\* deduplicated list is returned, unless deduplicateCameras panics
ReadTimeout ==
    /\ dstate = "Listening" /\ now >= deadline
    /\ lastRead' = [kind |-> "timeout", matches |-> 0]
    /\ IF dedupPanics(cameras)
       THEN /\ dstate' = "Panicked"
            /\ dresult' = [returned |-> FALSE, panicked |-> TRUE, list |-> <<>>, err |-> NilErr]
       ELSE /\ dstate' = "Done"
            /\ \E list \in deduplicateCameras(cameras) :
                  dresult' = [returned |-> TRUE, panicked |-> FALSE, list |-> list, err |-> NilErr]
    /\ UNCHANGED <<theCamera, options, now, deadline, probeSent, cameras, call, fn, cvars>>

\* a second passes while the session waits for datagrams
Tick ==
    /\ dstate = "Listening" /\ now < deadline
    /\ now' = now + 1
    /\ UNCHANGED <<theCamera, options, dstate, deadline, probeSent, lastRead, cameras,
                   dresult, call, fn, cvars>>

DiscoveryInit ==
    /\ theCamera = FreshCamera
    /\ options \in OptionArgs /\ dstate = "Idle" /\ now = 0 /\ deadline = 0
    /\ probeSent = FALSE /\ lastRead = NoRead
    /\ cameras = <<>> /\ dresult = NoResult
    /\ call = NoCall /\ fn = NoFn
    /\ NoGoroutines

DiscoveryNext ==
    \/ Resolve \/ ListenUDP \/ SetReadDeadline \/ WriteToUDP
    \/ ReadFailed \/ ReadMalformed \/ ReadProbeMatches \/ ReadTimeout \/ Tick

DiscoverySpec == DiscoveryInit /\ [][DiscoveryNext]_vars

----------------------------------------------------------------------------
(* deduplicateCameras applied to one list of candidates, to its own result *)
(* and to the list in another order                                        *)

\* the candidates a session may accumulate
Candidates == {cameraOf(match) : match \in ProbeMatchInputs}

\* the lists with the elements of list, in every order
Reorderings(list) ==
    {[i \in DOMAIN list |-> list[order[i]]] : order \in KeyOrders([i \in DOMAIN list |-> i])}

DedupPanicked == [panicked |-> TRUE, once |-> <<>>, twice |-> <<>>, perm |-> <<>>]

ApplyDeduplicateCameras ==
    /\ fn.f = "none"
    /\ \E list \in SeqsUpTo(Candidates, MaxCameras) : \E perm \in Reorderings(list) :
          IF dedupPanics(list)
          THEN fn' = [f |-> "deduplicateCameras", in |-> [list |-> list, perm |-> perm],
                      arg |-> <<>>, out |-> DedupPanicked]
          ELSE \E once \in deduplicateCameras(list), again \in deduplicateCameras(perm) :
                  \E twice \in deduplicateCameras(once) :
                     fn' = [f |-> "deduplicateCameras", in |-> [list |-> list, perm |-> perm],
                            arg |-> <<>>,
                            out |-> [panicked |-> FALSE, once |-> once, twice |-> twice,
                                     perm |-> again]]
    /\ UNCHANGED <<theCamera, dvars, call, cvars>>

ParserInit ==
    /\ theCamera = FreshCamera
    /\ options = NilOptions /\ dstate = "Idle" /\ now = 0 /\ deadline = 0
    /\ probeSent = FALSE /\ lastRead = NoRead
    /\ cameras = <<>> /\ dresult = NoResult
    /\ call = NoCall
    /\ fn = NoFn
    /\ NoGoroutines

ParserNext ==
    \/ ApplyContainsSOAPFault \/ ApplyParseSOAPFault \/ ApplyExtractBetweenTags
    \/ ApplySendSOAPRequest \/ ApplyDeduplicateCameras
    \/ ApplyExtractUnclosed \/ ApplyExtractSameName
    \/ ApplyGeneratePasswordDigest \/ ApplySoapRequest
    \/ ApplyParseScopes \/ ApplyParseProfiles
    \/ StartUserRecords \/ NextUserRecord

ParserSpec == ParserInit /\ [][ParserNext]_vars

----------------------------------------------------------------------------
(* Two calls at once: each goroutine runs sendSOAPRequest with a Client or  *)
(* DiscoverCameras with the caller's options, one memory access or library  *)
(* call at a time                                                           *)

\* the clients the concurrent requests are sent with
SharedClients == {c \in Clients : c.Username # <<>> /\ c.Timeout = 10 /\ ~c.InsecureTLS}

\* what the network answers to a concurrent request
ConcurrentResponses == {Failure("Do"), Response(200, <<"<", "o", "k", "/", ">">>)}

\* the probe matches a concurrent session may receive
ConcurrentMatches ==
    {match \in ProbeMatchInputs : Contains(match.XAddrs, <<"1", "0", ".", "0", ".", "0", ".", "5">>)}

\* the most probe matches a concurrent session accumulates
MaxMatches == 1

\* goroutine p moves to pc with the locals of its record changed as in next
Step(p, next) == procs' = [procs EXCEPT ![p] = next]

\* a caller starts a request with the shared client or with one of its own
GoSendSOAPRequest(p) ==
    /\ procs[p].pc = "idle"
    /\ \E c \in {theClient} \cup SharedClients :
          Step(p, [procs[p] EXCEPT !.op = "sendSOAPRequest", !.pc = "soap.go:17", !.c = c])
    /\ UNCHANGED <<theCamera, dvars, call, fn, theClient, clock, mem>>

\* generatePasswordDigest, line 17: created is the clock, formatted
ReadCreated(p) ==
    /\ procs[p].pc = "soap.go:17"
    /\ Step(p, [procs[p] EXCEPT !.created = clock, !.pc = "soap.go:18"])
    /\ UNCHANGED <<theCamera, dvars, call, fn, theClient, clock, mem>>

\* generatePasswordDigest, lines 18-28: the nonce is the clock, in decimal
ReadNonce(p) ==
    /\ procs[p].pc = "soap.go:18"
    /\ Step(p, [procs[p] EXCEPT
                  !.nonceTime = clock,
                  !.token = tokenFor(procs[p].c.Username, procs[p].c.Password,
                                     procs[p].created, clock),
                  !.pc = "soap.go:59"])
    /\ UNCHANGED <<theCamera, dvars, call, fn, theClient, clock, mem>>

\* sendSOAPRequest, lines 59-98: the request is sent and the answer returned
Do(p) ==
    /\ procs[p].pc = "soap.go:59"
    /\ \E r \in ConcurrentResponses :
          Step(p, [procs[p] EXCEPT
                     !.r = r,
                     !.result = [NoReturn EXCEPT !.body = sendSOAPRequest(r).body,
                                                 !.isNil = sendSOAPRequest(r).isNil,
                                                 !.err = sendSOAPRequest(r).err],
                     !.pc = "done"])
    /\ UNCHANGED <<theCamera, dvars, call, fn, theClient, clock, mem>>

\* time.Now() moves on between two steps, or does not
Tock ==
    /\ clock < 1000000
    /\ clock' = IF clock = 0 THEN 999999 ELSE 1000000
    /\ UNCHANGED <<theCamera, dvars, call, fn, theClient, mem, procs>>

\* DiscoverCameras, lines 70-75: a caller passes nil, and the call makes its
\* own options, or passes the options in memory
GoDiscoverCameras(p) ==
    /\ procs[p].pc = "idle"
    /\ \E shared \in BOOLEAN :
          Step(p, [procs[p] EXCEPT
                     !.op = "DiscoverCameras", !.shared = shared,
                     !.pc = IF shared THEN "discovery.go:77" ELSE "discovery.go:85"])
    /\ UNCHANGED <<theCamera, dvars, call, fn, theClient, clock, mem>>

\* line 77: options.MulticastAddr == "" compares the length with 0
CheckMulticastAddr(p) ==
    /\ procs[p].pc = "discovery.go:77"
    /\ Step(p, [procs[p] EXCEPT
                  !.pc = IF mem.addrLen = 0 THEN "discovery.go:78" ELSE "discovery.go:81"])
    /\ UNCHANGED <<theCamera, dvars, call, fn, theClient, clock, mem>>

\* line 81: options.Timeout == 0
CheckTimeout(p) ==
    /\ procs[p].pc = "discovery.go:81"
    /\ Step(p, [procs[p] EXCEPT
                  !.pc = IF mem.timeoutHi = 0 /\ mem.timeoutLo = 0
                         THEN "discovery.go:82" ELSE "discovery.go:85"])
    /\ UNCHANGED <<theCamera, dvars, call, fn, theClient, clock, mem>>

\* the words an assignment of line writes, and the line that follows it
WordsOf(line) ==
    IF line = "discovery.go:78" THEN {"addrPtr", "addrLen"} ELSE {"timeoutHi", "timeoutLo"}

NextLine(line) == IF line = "discovery.go:78" THEN "discovery.go:81" ELSE "discovery.go:85"

\* lines 78 and 82: the default is stored into the caller's options, all the
\* words of the field at once or some of them first, in the order the build
\* chooses
StoreDefault(p) ==
    /\ procs[p].pc \in {"discovery.go:78", "discovery.go:82"}
    /\ \E words \in SUBSET (WordsOf(procs[p].pc) \ procs[p].stored) :
          /\ words # {}
          /\ mem' = [w \in DOMAIN mem |-> IF w \in words THEN DefaultOptions[w] ELSE mem[w]]
          /\ IF procs[p].stored \cup words = WordsOf(procs[p].pc)
             THEN Step(p, [procs[p] EXCEPT !.stored = {}, !.pc = NextLine(procs[p].pc)])
             ELSE Step(p, [procs[p] EXCEPT !.stored = @ \cup words])
    /\ UNCHANGED <<theCamera, dvars, call, fn, theClient, clock>>

\* what a call reads of its options: its own are complete
OptionsOf(p) == IF procs[p].shared THEN mem ELSE DefaultOptions

\* line 85: net.ResolveUDPAddr reads the bytes of options.MulticastAddr; a
\* length with no data pointer is a nil dereference, no address is an error
ResolveUDPAddr(p) ==
    /\ procs[p].pc = "discovery.go:85"
    /\ LET o == OptionsOf(p)
       IN  IF o.addrLen > 0 /\ o.addrPtr = "nil"
           THEN Step(p, [procs[p] EXCEPT !.addr = <<o.addrPtr, o.addrLen>>,
                                         !.result = [NoReturn EXCEPT !.panicked = TRUE],
                                         !.pc = "done"])
           ELSE IF o.addrLen = 0
           THEN Step(p, [procs[p] EXCEPT
                           !.addr = <<o.addrPtr, o.addrLen>>,
                           !.result = [NoReturn EXCEPT
                              !.err = Errorf("failed to resolve multicast address: %v")],
                           !.pc = "done"])
           ELSE Step(p, [procs[p] EXCEPT !.addr = <<o.addrPtr, o.addrLen>>,
                                         !.pc = "discovery.go:96"])
    /\ UNCHANGED <<theCamera, dvars, call, fn, theClient, clock, mem>>

\* line 96: the read deadline is now plus options.Timeout
ReadOptionsTimeout(p) ==
    /\ procs[p].pc = "discovery.go:96"
    /\ Step(p, [procs[p] EXCEPT !.timeout = <<OptionsOf(p).timeoutHi, OptionsOf(p).timeoutLo>>,
                                !.pc = "discovery.go:104"])
    /\ UNCHANGED <<theCamera, dvars, call, fn, theClient, clock, mem>>

\* lines 104-133: a probe match is appended to the call's own candidates
AppendCamera(p) ==
    /\ procs[p].pc = "discovery.go:104"
    /\ Len(procs[p].cameras) < MaxMatches
    /\ \E match \in ConcurrentMatches :
          Step(p, [procs[p] EXCEPT !.cameras = Append(@, cameraOf(match))])
    /\ UNCHANGED <<theCamera, dvars, call, fn, theClient, clock, mem>>

\* lines 109-111 and 138: the deadline passes and the call returns its
\* candidates, deduplicated through its own map
ReturnCameras(p) ==
    /\ procs[p].pc = "discovery.go:104"
    /\ \E list \in deduplicateCameras(procs[p].cameras) :
          Step(p, [procs[p] EXCEPT !.result = [NoReturn EXCEPT !.list = list, !.isNil = FALSE],
                                   !.pc = "done"])
    /\ UNCHANGED <<theCamera, dvars, call, fn, theClient, clock, mem>>

ConcurrentInit ==
    /\ theCamera = FreshCamera
    /\ options = NilOptions /\ dstate = "Idle" /\ now = 0 /\ deadline = 0
    /\ probeSent = FALSE /\ lastRead = NoRead
    /\ cameras = <<>> /\ dresult = NoResult
    /\ call = NoCall /\ fn = NoFn
    /\ theClient \in SharedClients
    /\ clock = 0
    /\ mem = ZeroOptions
    /\ procs = [p \in Goroutines |-> IdleGoroutine]

ConcurrentNext ==
    \/ Tock
    \/ \E p \in Goroutines :
          \/ GoSendSOAPRequest(p) \/ ReadCreated(p) \/ ReadNonce(p) \/ Do(p)
          \/ GoDiscoverCameras(p) \/ CheckMulticastAddr(p) \/ CheckTimeout(p)
          \/ StoreDefault(p) \/ ResolveUDPAddr(p) \/ ReadOptionsTimeout(p)
          \/ AppendCamera(p) \/ ReturnCameras(p)

ConcurrentSpec == ConcurrentInit /\ [][ConcurrentNext]_vars

\* C22: any two requests, of one client or of two, one after the other or at
\* once, carry different (nonce, created) pairs in their security headers,
\* also when the clock does not advance between them.
C22_TokenNeverReused ==
    \A p \in Goroutines, q \in Goroutines :
        (/\ p # q
         /\ procs[p].op = "sendSOAPRequest" /\ procs[p].pc \in {"soap.go:59", "done"}
         /\ procs[q].op = "sendSOAPRequest" /\ procs[q].pc \in {"soap.go:59", "done"})
        => <<procs[p].token.nonce, procs[p].token.created>>
              # <<procs[q].token.nonce, procs[q].token.created>>

\* what DiscoverCameras returns to a caller that runs it alone with options
\* of no address and no timeout, or with nil, on the same probe matches
AloneDiscoverCameras(p) ==
    /\ ~procs[p].result.panicked
    /\ procs[p].result.err = NilErr
    /\ procs[p].addr = <<DefaultOptions.addrPtr, DefaultOptions.addrLen>>
    /\ procs[p].timeout = <<DefaultOptions.timeoutHi, DefaultOptions.timeoutLo>>
    /\ procs[p].result.list \in deduplicateCameras(procs[p].cameras)

\* what sendSOAPRequest returns to a caller that runs it alone
AloneSendSOAPRequest(p) ==
    /\ procs[p].result.body = sendSOAPRequest(procs[p].r).body
    /\ procs[p].result.isNil = sendSOAPRequest(procs[p].r).isNil
    /\ procs[p].result.err = sendSOAPRequest(procs[p].r).err
    /\ procs[p].token = tokenFor(procs[p].c.Username, procs[p].c.Password,
                                 procs[p].created, procs[p].nonceTime)

\* C28: under every interleaving of two concurrent calls, each call returns
\* what it returns when it runs alone on the same inputs, and the Client is
\* the one the requests were started with.
C28_ConcurrentCallsAsAlone ==
    /\ theClient \in SharedClients
    /\ \A p \in Goroutines :
          procs[p].pc = "done" =>
             /\ procs[p].op = "DiscoverCameras" => AloneDiscoverCameras(p)
             /\ procs[p].op = "sendSOAPRequest" => AloneSendSOAPRequest(p)

\* time does not stop, and a read that waits on a connection whose deadline
\* has expired returns the timeout
DiscoveryFairSpec == DiscoverySpec /\ WF_vars(Tick) /\ WF_vars(ReadTimeout)

----------------------------------------------------------------------------
(* The table of parseSOAPFault, read as a table *)

\* the known fault substrings in the order parseSOAPFault tests them
KnownFaults ==
    << [code |-> <<"t", "e", "r", ":", "U", "s", "e", "r", "n", "a", "m", "e", "C", "l", "a", "s", "h">>,   kind |-> "username already exists"],
       [code |-> <<"t", "e", "r", ":", "U", "s", "e", "r", "n", "a", "m", "e", "M", "i", "s", "s", "i", "n", "g">>, kind |-> "username not found"],
       [code |-> <<"t", "e", "r", ":", "T", "o", "o", "M", "a", "n", "y", "U", "s", "e", "r", "s">>,    kind |-> "maximum number of users reached"],
       [code |-> <<"t", "e", "r", ":", "F", "i", "x", "e", "d", "U", "s", "e", "r">>,       kind |-> "cannot modify or delete fixed user"],
       [code |-> <<"t", "e", "r", ":", "P", "a", "s", "s", "w", "o", "r", "d">>,        kind |-> "password does not meet requirements"],
       [code |-> <<"N", "o", "t", "A", "u", "t", "h", "o", "r", "i", "z", "e", "d">>,       kind |-> "not authorized"] >>

KnownKinds == {KnownFaults[k].kind : k \in 1..Len(KnownFaults)}

MatchingFaults(s) == {k \in 1..Len(KnownFaults) : Contains(s, KnownFaults[k].code)}

----------------------------------------------------------------------------
(* Claims about the parser functions, checked under ParserSpec *)

\* C4: for a fault body that matches none of the fixed fault substrings and
\* holds a Reason element with a nested Text element "Sender not authorized"
\* (any prefix), parseSOAPFault returns the not-authorized kind or an error
\* whose message is exactly the Text content.
C4_ReasonTextIsTheMessage ==
    ( /\ fn.f = "parseSOAPFault"
      /\ fn.in.form \in FaultElements
      /\ MatchingFaults(fn.arg) = {}
      /\ fn.in.detail \in ReasonTextDetails )
    => \/ fn.out.kind = "not authorized"
       \/ (fn.out.kind = "SOAP fault: %s" /\ fn.out.msg = <<"S", "e", "n", "d", "e", "r", " ", "n", "o", "t", " ", "a", "u", "t", "h", "o", "r", "i", "z", "e", "d">>)

\* C5: for a local name that occurs exactly once as <p:Name>text</p:Name> or
\* <Name>text</Name> in a well-formed fragment, extractBetweenTags returns
\* exactly the inner text, for every prefix p or none.
C5_ExtractionRoundTrip ==
    fn.f = "extractBetweenTags" => fn.out = fn.in.text

\* C19: for a text in which the element with the requested local name is
\* opened and never closed, extractBetweenTags returns the empty string,
\* whatever follows: nothing, another element, or an element of the same
\* local name under another prefix.
C19_UnclosedElementIsAbsent ==
    fn.f = "extractBetweenTags.unclosed" => fn.out = <<>>

\* C20: with an element of the same local name under another prefix nested
\* in the first element of the requested local name, or after it,
\* extractBetweenTags returns the content of the first element up to its own
\* closing tag, whether the first element is prefixed or not.
C20_FirstElementOwnClosingTag ==
    fn.f = "extractBetweenTags.sameName" => fn.out = fn.in.text

\* C9: the classifier reports a fault if and only if the body holds an
\* element whose local name is Fault, whatever its prefix or attributes.
C9_FaultIffFaultElement ==
    fn.f = "containsSOAPFault" => (fn.out <=> fn.in.form \in FaultElements)

\* C10: with a Fault element present the first known substring of the table
\* that the body contains decides the kind, even when later ones are
\* contained too; without a Fault element none of the known kinds is returned.
C10_FirstKnownFaultWins ==
    fn.f = "parseSOAPFault" =>
        /\ (fn.in.form \in FaultElements /\ MatchingFaults(fn.arg) # {})
              => fn.out.kind = KnownFaults[Min(MatchingFaults(fn.arg))].kind
        /\ fn.in.form \notin FaultElements => fn.out.kind \notin KnownKinds

\* C11: on a body with a Fault element parseSOAPFault returns an error of one
\* of its kinds; when the body holds no known substring and no Reason text, a
\* flat <faultstring>t</faultstring> gives the message t, and without it the
\* error is the generic "SOAP fault in response".
C11_ClassificationIsTotal ==
    (fn.f = "parseSOAPFault" /\ fn.in.form \in FaultElements) =>
        /\ fn.out # NilErr
        /\ fn.out.kind \in KnownKinds \cup {"SOAP fault: %s", "SOAP fault in response"}
        /\ (MatchingFaults(fn.arg) = {} /\ fn.in.detail \notin ReasonTextDetails) =>
              /\ \A r \in NoTextReasons, t \in FaultStrings :
                    fn.in.detail = r \o FaultstringDetail(t)
                       => fn.out = ErrorfMsg("SOAP fault: %s", t)
              /\ fn.in.detail \in NoTextReasons => fn.out = Errorf("SOAP fault in response")

\* a fault with a Reason that has no Text and a faultstring, reported with
\* the text of the faultstring
C11_Witness ==
    /\ fn.f = "parseSOAPFault" /\ fn.in.form \in FaultElements
    /\ fn.in.codes = <<>>
    /\ fn.in.detail = <<"<", "s", ":", "R", "e", "a", "s", "o", "n", ">", "x", "<", "/", "s", ":", "R", "e", "a", "s", "o", "n", ">">> \o FaultstringDetail(<<"d", "e", "n", "i", "e", "d">>)
    /\ fn.out = ErrorfMsg("SOAP fault: %s", <<"d", "e", "n", "i", "e", "d">>)

\* C21: the envelope a request is sent in holds one Header element and one
\* Body element, the Body holding the fragment of the caller; the Header is
\* empty exactly when the username of the client is empty, and otherwise
\* holds one Security block with one UsernameToken: the username, and the
\* digest, the nonce and the created timestamp generated for this request.
C21_EnvelopeHeaderAndBody ==
    fn.f = "soapRequest" =>
        LET env == fn.out
            Count(s, pat) == Cardinality({i \in 0..(Len(s) - Len(pat)) : HasAt(s, pat, i)})
            Once(pat) == Count(env, pat) = 1
            headerText == Slice(env, Index(env, <<"<", "s", ":", "H", "e", "a", "d", "e", "r", ">">>) + 10, Index(env, <<"<", "/", "s", ":", "H", "e", "a", "d", "e", "r", ">">>))
            bodyText == Slice(env, Index(env, <<"<", "s", ":", "B", "o", "d", "y", ">">>) + 8, Index(env, <<"<", "/", "s", ":", "B", "o", "d", "y", ">">>))
        IN  /\ Once(<<"<", "s", ":", "H", "e", "a", "d", "e", "r", ">">>) /\ Once(<<"<", "/", "s", ":", "H", "e", "a", "d", "e", "r", ">">>)
            /\ Once(<<"<", "s", ":", "B", "o", "d", "y", ">">>) /\ Once(<<"<", "/", "s", ":", "B", "o", "d", "y", ">">>)
            /\ Index(env, <<"<", "/", "s", ":", "H", "e", "a", "d", "e", "r", ">">>) < Index(env, <<"<", "s", ":", "B", "o", "d", "y", ">">>)
            /\ bodyText = fn.in.body
            /\ headerText = <<>> <=> fn.in.c.Username = <<>>
            /\ fn.in.c.Username # <<>> =>
                  /\ Count(headerText, <<"<", "S", "e", "c", "u", "r", "i", "t", "y", " ">>) = 1
                  /\ Count(headerText, <<"<", "/", "S", "e", "c", "u", "r", "i", "t", "y", ">">>) = 1
                  /\ Count(headerText, <<"<", "U", "s", "e", "r", "n", "a", "m", "e", "T", "o", "k", "e", "n", ">">>) = 1
                  /\ Count(headerText, <<"<", "/", "U", "s", "e", "r", "n", "a", "m", "e", "T", "o", "k", "e", "n", ">">>) = 1
                  /\ Count(headerText, <<"<", "U", "s", "e", "r", "n", "a", "m", "e", ">">> \o fn.in.c.Username \o <<"<", "/", "U", "s", "e", "r", "n", "a", "m", "e", ">">>) = 1
                  /\ Count(headerText, <<"#", "P", "a", "s", "s", "w", "o", "r", "d", "D", "i", "g", "e", "s", "t", "\"", ">">> \o fn.arg.digest \o <<"<", "/", "P", "a", "s", "s", "w", "o", "r", "d", ">">>) = 1
                  /\ Count(headerText, <<"#", "B", "a", "s", "e", "6", "4", "B", "i", "n", "a", "r", "y", "\"", ">">> \o fn.arg.nonce \o <<"<", "/", "N", "o", "n", "c", "e", ">">>) = 1
                  /\ Count(headerText, <<"u", "t", "i", "l", "i", "t", "y", "-", "1", ".", "0", ".", "x", "s", "d", "\"", ">">> \o fn.arg.created \o <<"<", "/", "C", "r", "e", "a", "t", "e", "d", ">">>) = 1
                  /\ Count(headerText, <<"<", "P", "a", "s", "s", "w", "o", "r", "d", " ">>) = 1
                  /\ Count(headerText, <<"<", "N", "o", "n", "c", "e", " ">>) = 1
                  /\ Count(headerText, <<"<", "C", "r", "e", "a", "t", "e", "d", " ">>) = 1

\* a client with a username and a password sends GetUsers
C21_Witness ==
    /\ fn.f = "soapRequest"
    /\ fn.in.c.Username = <<"a", "d", "m", "i", "n">> /\ fn.in.c.Password = <<"p", "w">>
    /\ fn.in.body = <<"<", "t", "d", "s", ":", "G", "e", "t", "U", "s", "e", "r", "s", "/", ">">>
    /\ Contains(fn.out, <<"<", "U", "s", "e", "r", "n", "a", "m", "e", ">", "a", "d", "m", "i", "n", "<", "/", "U", "s", "e", "r", "n", "a", "m", "e", ">">>)

\* C23: the digest generatePasswordDigest returns depends on the nonce bytes,
\* the created timestamp and the password only: two calls with the same three
\* return the same digest whatever the usernames, two calls that differ in
\* exactly one of the three return different digests, and the digest is the
\* Base64 of the SHA-1 of nonce bytes, created and password in this order
\* (compared with the digests of two inputs computed outside the model).
C23_DigestOfNonceCreatedSecret ==
    fn.f = "generatePasswordDigest" =>
        LET first == fn.out[1]
            second == fn.out[2]
            differing ==
                (IF first.nonce # second.nonce THEN 1 ELSE 0)
                    + (IF first.created # second.created THEN 1 ELSE 0)
                    + (IF fn.in[1].password # fn.in[2].password THEN 1 ELSE 0)
        IN  /\ differing = 0 => first.digest = second.digest
            /\ differing = 1 => first.digest # second.digest
            /\ ( /\ fn.in[1].nonceTime = 1000000 /\ fn.in[1].created \in {0, 999999}
                 /\ fn.in[1].password = <<"p", "w">> )
                  => first.digest = <<"1", "w", "d", "i", "7", "j", "6", "U", "o", "c", "T", "3", "F", "q", "J", "J", "G", "i", "b", "V", "d", "N", "o", "m", "p", "I", "w", "=">>
            /\ ( /\ fn.in[1].nonceTime = 0 /\ fn.in[1].created = 0
                 /\ fn.in[1].password = <<>> )
                  => first.digest = <<"E", "J", "7", "M", "x", "X", "r", "x", "K", "D", "Q", "c", "9", "J", "b", "s", "q", "j", "k", "Q", "n", "N", "1", "4", "j", "T", "k", "=">>

\* two clients with different usernames and the same password, at the same
\* instants
C23_Witness ==
    /\ fn.f = "generatePasswordDigest"
    /\ fn.in[1].username # fn.in[2].username
    /\ fn.in[1].password = <<"p", "w">> /\ fn.in[2].password = <<"p", "w">>
    /\ fn.in[1].nonceTime = 1000000 /\ fn.in[2].nonceTime = 1000000
    /\ fn.in[1].created = 0 /\ fn.in[2].created = 999999
    /\ fn.out[1].digest = fn.out[2].digest

\* C25: parseScopes reads a space-separated scope list token by token: a
\* token onvif://www.onvif.org/name/<value> sets the name to <value> with
\* every underscore replaced by a space, a location token the location and a
\* hardware token the model; every other token changes none of the three,
\* and a field no token of the list sets is empty.
C25_ScopesTokenByToken ==
    fn.f = "parseScopes" =>
        LET tokens == fn.in
            IsOf(kind, token) ==
                LET marker == <<"o", "n", "v", "i", "f", ":", "/", "/", "w", "w", "w", ".", "o", "n", "v", "i", "f", ".", "o", "r", "g", "/">> \o kind \o <<"/">>
                IN  Len(token) >= Len(marker) /\ SubSeq(token, 1, Len(marker)) = marker
            ValueOf(kind, token) ==
                LET value == SubSeq(token, Len(kind) + 24, Len(token))
                IN  [i \in 1..Len(value) |-> IF value[i] = "_" THEN " " ELSE value[i]]
            Field(kind) ==
                LET setters == {i \in 1..Len(tokens) : IsOf(kind, tokens[i])}
                IN  IF setters = {} THEN <<>>
                    ELSE ValueOf(kind, tokens[CHOOSE i \in setters : \A j \in setters : j <= i])
        IN  /\ fn.out.name = Field(<<"n", "a", "m", "e">>)
            /\ fn.out.location = Field(<<"l", "o", "c", "a", "t", "i", "o", "n">>)
            /\ fn.out.model = Field(<<"h", "a", "r", "d", "w", "a", "r", "e">>)

C25_Witness ==
    /\ fn.f = "parseScopes"
    /\ fn.in = << <<"o", "n", "v", "i", "f", ":", "/", "/", "w", "w", "w", ".", "o", "n", "v", "i", "f", ".", "o", "r", "g", "/", "t", "y", "p", "e", "/", "v", "i", "d", "e", "o", "_", "e", "n", "c", "o", "d", "e", "r">>,
                  <<"o", "n", "v", "i", "f", ":", "/", "/", "w", "w", "w", ".", "o", "n", "v", "i", "f", ".", "o", "r", "g", "/", "l", "o", "c", "a", "t", "i", "o", "n", "/", "B", "a", "c", "k", "_", "Y", "a", "r", "d", "_", "1">> >>
    /\ fn.out = [name |-> <<>>, location |-> <<"B", "a", "c", "k", " ", "Y", "a", "r", "d", " ", "1">>, model |-> <<>>]

\* C26: parseProfiles maps the type list to tags in the order of the input:
\* a token contributes at most one tag, one of the nine, and only a tag
\* whose word the token holds; a token that holds none of the words
\* contributes none; so there are never more tags than tokens.
C26_ProfilesInInputOrder ==
    fn.f = "parseProfiles" =>
        LET Words ==
                { <<<<"N", "e", "t", "w", "o", "r", "k", "V", "i", "d", "e", "o", "T", "r", "a", "n", "s", "m", "i", "t", "t", "e", "r">>, "Network Video Transmitter">>,
                  <<<<"D", "e", "v", "i", "c", "e">>, "Device">>, <<<<"M", "e", "d", "i", "a">>, "Media">>, <<<<"P", "T", "Z">>, "PTZ">>,
                  <<<<"A", "n", "a", "l", "y", "t", "i", "c", "s">>, "Analytics">>, <<<<"E", "v", "e", "n", "t", "s">>, "Events">>,
                  <<<<"I", "m", "a", "g", "i", "n", "g">>, "Imaging">>, <<<<"R", "e", "c", "o", "r", "d", "i", "n", "g">>, "Recording">>,
                  <<<<"R", "e", "p", "l", "a", "y">>, "Replay">> }
            TagsOf(token) == {w[2] : w \in {v \in Words : Contains(token, v[1])}}
            RECURSIVE InOrder(_, _)
            InOrder(tokens, tags) ==
                IF tokens = <<>> THEN tags = <<>>
                ELSE IF TagsOf(Head(tokens)) = {} THEN InOrder(Tail(tokens), tags)
                ELSE /\ tags # <<>>
                     /\ Head(tags) \in TagsOf(Head(tokens))
                     /\ InOrder(Tail(tokens), Tail(tags))
        IN  /\ InOrder(fn.in, fn.out)
            /\ Len(fn.out) <= Len(fn.in)

C26_Witness ==
    /\ fn.f = "parseProfiles"
    /\ fn.in = << <<"t", "n", "s", "1", ":", "D", "e", "v", "i", "c", "e", "M", "e", "d", "i", "a">>, <<"d", "n", ":", "N", "e", "t", "w", "o", "r", "k", "V", "i", "d", "e", "o", "T", "r", "a", "n", "s", "m", "i", "t", "t", "e", "r">> >>
    /\ fn.out = <<"Device", "Network Video Transmitter">>

\* C29: the record loop of GetUsers ends on every body: an iteration that
\* finds an opening and a closing User tag takes a non-empty prefix off the
\* remaining text, the loop stops when no opening or no closing tag is found
\* and not before, and so it makes no more iterations than the body has
\* characters.
C29_RecordLoopTerminates ==
    fn.f = "GetUsers" =>
        LET userStart == findTagOpen(fn.arg, <<"U", "s", "e", "r">>)
            userEnd == IF userStart = -1 THEN -1
                       ELSE findTagClose(From(fn.arg, userStart), <<"U", "s", "e", "r">>)
        IN  /\ fn.out.iterations <= Len(fn.in) - Len(fn.arg)
            /\ fn.out.iterations <= Len(fn.in)
            /\ fn.arg = SubSeq(fn.in, Len(fn.in) - Len(fn.arg) + 1, Len(fn.in))
            /\ fn.out.done => userStart = -1 \/ userEnd = -1
            /\ fn.out.done => fn.out.users = usersFallback(fn.in, <<>>)
            /\ userStart # -1 /\ userEnd # -1 =>
                  /\ userStart + userEnd > 0
                  /\ Len(restAfterRecord(fn.arg, userStart, userEnd)) < Len(fn.arg)

C29_Witness ==
    /\ fn.f = "GetUsers" /\ fn.out.done
    /\ fn.out.iterations = 3
    /\ Len(fn.out.users) = 2

\* C6: sendSOAPRequest by transport result: a network-level failure gives
\* a nil body and an error; an error status (>= 400) with an empty body gives
\* a nil body and the error that names the status; an error status with a
\* non-empty body gives the full body; a status below 400 gives the full body
\* and a nil error.
C6_TransportOutcomes ==
    fn.f = "sendSOAPRequest" =>
        /\ fn.in.fail # "none" => (fn.out.isNil /\ fn.out.err # NilErr)
        /\ (fn.in.fail = "none" /\ fn.in.status >= 400 /\ fn.in.body = <<>>)
              => /\ fn.out.isNil
                 /\ fn.out.err = ErrorfStatus("HTTP %d with empty response", fn.in.status)
        /\ (fn.in.fail = "none" /\ fn.in.status >= 400 /\ fn.in.body # <<>>)
              => (~fn.out.isNil /\ fn.out.body = fn.in.body)
        /\ (fn.in.fail = "none" /\ fn.in.status < 400)
              => (~fn.out.isNil /\ fn.out.body = fn.in.body /\ fn.out.err = NilErr)

\* a 401 with an empty body came back as the error naming 401, with no body
C6_Witness ==
    /\ fn.f = "sendSOAPRequest"
    /\ fn.in.fail = "none" /\ fn.in.status = 401 /\ fn.in.body = <<>>
    /\ fn.out.isNil /\ fn.out.err.status = 401

----------------------------------------------------------------------------
(* Claims about DiscoverCameras, checked under DiscoverySpec *)

\* C1: in the list DiscoverCameras returns no two cameras have the same
\* first address token, and the probe matches whose address fields start
\* with one token are represented by exactly one returned camera.
C1_DedupKeyedOnFirstToken ==
    dresult.returned =>
        /\ \A i, j \in 1..Len(dresult.list) :
              i # j => getFirstAddress(dresult.list[i].Address) # getFirstAddress(dresult.list[j].Address)
        /\ \A i \in 1..Len(cameras) :
              \E j \in 1..Len(dresult.list) :
                 getFirstAddress(dresult.list[j].Address) = getFirstAddress(cameras[i].Address)

\* two probe matches that start with the same token, one of them followed by
\* a second address, came back as one camera
C1_Witness ==
    /\ dresult.returned /\ Len(dresult.list) = 1
    /\ \E i, j \in 1..Len(cameras) :
          /\ cameras[i].Address # cameras[j].Address
          /\ Len(Fields(cameras[j].Address)) = 2
          /\ getFirstAddress(cameras[i].Address) = getFirstAddress(cameras[j].Address)

\* C2: a probe match whose address field is empty or only whitespace is
\* dropped like a datagram that does not decode: the session does not abort,
\* no returned camera has an empty key, and the call returns the other
\* candidates with a nil error.
C2_EmptyAddressIsDecodeFailure ==
    /\ ~dresult.panicked
    /\ dresult.returned =>
          /\ \A j \in 1..Len(dresult.list) : Fields(dresult.list[j].Address) # <<>>
          /\ \A i \in 1..Len(cameras) :
                Fields(cameras[i].Address) # <<>> =>
                   \E j \in 1..Len(dresult.list) :
                      getFirstAddress(dresult.list[j].Address) = getFirstAddress(cameras[i].Address)

\* C12: the session leaves Listening only when the read deadline has expired
\* and the read timed out; a read error that is no timeout, a datagram that
\* does not decode and a decoded datagram with no probe match each leave the
\* session in Listening and the accumulated candidates as they were.
C12_ListeningLeftOnlyByTimeout ==
    [][ /\ (dstate = "Listening" /\ dstate' # "Listening")
              => (now >= deadline /\ lastRead'.kind = "timeout")
        /\ ( \/ lastRead'.kind \in {"error", "malformed"}
             \/ (lastRead'.kind = "decoded" /\ lastRead'.matches = 0) )
              => (dstate' = "Listening" /\ cameras' = cameras) ]_vars

\* a datagram that did not decode, read after candidates had been accumulated
C12_Witness ==
    dstate = "Listening" /\ lastRead.kind = "malformed" /\ cameras # <<>>

\* C13: the prober resolves and binds, then sends the probe, and only with
\* the probe sent sets the read deadline; no datagram is read before the
\* probe is sent, and the call returns a list only after it has listened.
C13_ProbeThenDeadlineThenListen ==
    [][ /\ deadline' # deadline => probeSent
        /\ lastRead' # lastRead => probeSent
        /\ (dstate' = "Listening" /\ dstate # "Listening") => (probeSent' /\ dstate # "Idle")
        /\ (dstate' = "Done" /\ dresult'.err = NilErr) => dstate = "Listening" ]_vars

\* C14: the read deadline is fixed once and no datagram moves it, and every
\* session that reaches Listening reaches Done, whatever it receives.
C14_ListeningEndsInDone ==
    /\ [][dstate = "Listening" => deadline' = deadline]_vars
    /\ (dstate = "Listening") ~> (dstate = "Done")

----------------------------------------------------------------------------
(* Claims about deduplicateCameras, checked under ParserSpec *)

\* C16: for a list on which deduplicateCameras returns, the cameras of the
\* result deduplicated again are the cameras of the result, and the dedup
\* keys of the result for a permutation of the list are those of the result
\* for the list.
C16_DedupIdempotentOrderInsensitive ==
    (fn.f = "deduplicateCameras" /\ ~fn.out.panicked) =>
        LET Members(l) == {l[i] : i \in DOMAIN l}
            Keys(l) == {getFirstAddress(l[i].Address) : i \in DOMAIN l}
        IN  /\ Members(fn.out.twice) = Members(fn.out.once)
            /\ Keys(fn.out.perm) = Keys(fn.out.once)

\* two candidates with different keys, deduplicated in both orders
C16_Witness ==
    /\ fn.f = "deduplicateCameras" /\ ~fn.out.panicked
    /\ Len(fn.in.list) = 2 /\ fn.in.perm # fn.in.list
    /\ Len(fn.out.once) = 2 /\ Len(fn.out.perm) = 2

\* C17: for a list on which deduplicateCameras returns, the result holds for
\* every dedup key of the list exactly one camera, and it is the first
\* candidate of the list with that key, every field as it arrived; a later
\* candidate with the key neither replaces it nor is merged into it.
C17_FirstSeenWins ==
    (fn.f = "deduplicateCameras" /\ ~fn.out.panicked) =>
        LET list == fn.in.list
            kept == fn.out.once
            KeyOf(cam) == getFirstAddress(cam.Address)
            FirstWith(key) ==
                CHOOSE i \in DOMAIN list :
                    /\ KeyOf(list[i]) = key
                    /\ \A j \in DOMAIN list : KeyOf(list[j]) = key => i <= j
        IN  /\ \A i \in DOMAIN list : \E k \in DOMAIN kept : KeyOf(kept[k]) = KeyOf(list[i])
            /\ \A k \in DOMAIN kept : kept[k] = list[FirstWith(KeyOf(kept[k]))]
            /\ \A k, l \in DOMAIN kept : KeyOf(kept[k]) = KeyOf(kept[l]) => k = l

\* two different candidates with one key: the first is kept
C17_Witness ==
    /\ fn.f = "deduplicateCameras" /\ ~fn.out.panicked
    /\ Len(fn.in.list) = 2 /\ fn.in.list[1] # fn.in.list[2]
    /\ getFirstAddress(fn.in.list[1].Address) = getFirstAddress(fn.in.list[2].Address)
    /\ fn.out.once = <<fn.in.list[1]>>

----------------------------------------------------------------------------
(* Claims about the client operations, checked under Spec *)

\* the errors sendSOAPRequest returns
TransportKinds == {"NewRequest", "Do", "ReadAll", "HTTP %d with empty response", "HTTP %d: %s"}

\* C3: a fault-checking operation that is answered with a non-empty fault
\* body returns the classified fault, whatever the HTTP status; it returns a
\* transport failure only when there is no body.
C3_FaultBodyIsClassified ==
    LET hasBody == call.resp.fail = "none" /\ call.resp.body # <<>>
    IN  call.op \in {"GetUsers", "CreateUsers", "SetUser", "DeleteUsers", "GetStreamUri", "GetOSDs"} =>
            /\ (hasBody /\ parseSOAPFault(call.resp.body) # NilErr)
                  => call.err = parseSOAPFault(call.resp.body)
            /\ call.err.kind \in TransportKinds => ~hasBody

\* C7: when the classifier reports a fault on a body the operation received,
\* GetUsers, GetStreamUri, GetOSDs and GetImagingSettings return that fault
\* and no data; they return data only when the classifier reports no fault on
\* the bodies received.
C7_FaultAndSuccessDisjoint ==
    LET HasBody(r) == r.fail = "none" /\ r.body # <<>>
        sent == Cardinality({i \in 1..Len(call.steps) : call.steps[i] = "sendSOAPRequest"})
        noData == call.data = <<>> \/ call.data = NilSettings
    IN  call.op \in {"GetUsers", "GetStreamUri", "GetOSDs", "GetImagingSettings"} =>
            /\ ( /\ call.op = "GetImagingSettings"
                 /\ HasBody(call.vs) /\ parseSOAPFault(call.vs.body) # NilErr )
                  => (call.err = parseSOAPFault(call.vs.body) /\ noData)
            /\ ( /\ sent = (IF call.op = "GetImagingSettings" THEN 2 ELSE 1)
                 /\ HasBody(call.resp) /\ parseSOAPFault(call.resp.body) # NilErr )
                  => (call.err = parseSOAPFault(call.resp.body) /\ noData)

\* C8: GetStreamUri takes the steps of the parse protocol in order and stops
\* at the first that decides: a transport error is returned with the
\* classifier not consulted; else a detected fault with nothing decoded; else
\* the decoded Uri when it is non-empty; else the extracted Uri when it is
\* non-empty; "no stream URI found" only when all of these yielded nothing.
C8_ParseProtocolOrder ==
    call.op = "GetStreamUri" =>
        LET protocol == <<"sendSOAPRequest", "parseSOAPFault", "xml.Unmarshal",
                          "extractBetweenTags">>
            steps == IF Head(call.steps) = "GetCapabilities"
                     THEN Tail(call.steps) ELSE call.steps
            transport == sendSOAPRequest(call.resp).err
            fault == parseSOAPFault(call.resp.body)
            decoded == IF call.dec.ok THEN call.dec.value ELSE <<>>
            extracted == extractBetweenTags(call.resp.body, <<"U", "r", "i">>)
        IN  IF transport # NilErr
            THEN /\ call.err = Wrap("failed to get stream URI", transport)
                 /\ call.data = <<>> /\ steps = SubSeq(protocol, 1, 1)
            ELSE IF fault # NilErr
            THEN /\ call.err = fault
                 /\ call.data = <<>> /\ steps = SubSeq(protocol, 1, 2)
            ELSE IF decoded # <<>>
            THEN /\ call.err = NilErr
                 /\ call.data = decoded /\ steps = SubSeq(protocol, 1, 3)
            ELSE IF extracted # <<>>
            THEN /\ call.err = NilErr
                 /\ call.data = extracted /\ steps = protocol
            ELSE /\ call.err = Errorf("no stream URI found in response")
                 /\ call.data = <<>> /\ steps = protocol

\* a response with no fault that xml.Unmarshal rejected, answered from the
\* extracted Uri after all four steps
C8_Witness ==
    /\ call.op = "GetStreamUri"
    /\ ~call.dec.ok /\ call.err = NilErr /\ call.data # <<>>
    /\ call.steps[Len(call.steps)] = "extractBetweenTags"

\* C18: GetUsers, answered without a transport error and without a fault by
\* a body with no User element, returns an empty list and no error; it
\* returns "failed to parse GetUsers response" only when the body holds a
\* Username element and neither the decode nor the fallback extraction
\* produced a user.
C18_NoUsersIsNotAFailure ==
    LET body == call.resp.body
        userParts == {parts \in SeqsUpTo(RespParts, MaxRespParts) :
                        /\ Concat(parts) = body
                        /\ \E i \in DOMAIN parts : parts[i] \in UserElements}
    IN  ( /\ call.op = "GetUsers"
          /\ sendSOAPRequest(call.resp).err = NilErr
          /\ parseSOAPFault(body) = NilErr ) =>
            /\ userParts = {} => (call.data = <<>> /\ call.err = NilErr)
            /\ call.err = Errorf("failed to parse GetUsers response") =>
                  /\ userParts # {}
                  /\ ~(call.dec.ok /\ Len(call.dec.value) > 0)
                  /\ usersFallback(body, <<>>) = <<>>

----------------------------------------------------------------------------
(* Claims about the device and stream operations, checked under DeviceSpec *)
(* and SessionSpec                                                         *)

\* C24: no layer swallows a failure: a public Client operation that issues a
\* SOAP request (GetDeviceInformation, GetHostname, GetSystemDateTime,
\* GetCapabilities, GetStreamProfiles, GetUsers, ...) returns an error that
\* is not nil when the transport of its request fails.
C24_TransportFailureIsReturned ==
    (call.op # "none" /\ call.resp.fail # "none") => call.err # NilErr

\* C27: the media service address GetCapabilities discovers is kept on the
\* camera: once a GetCapabilities on the camera has succeeded, a later
\* GetStreamProfiles or GetStreamUri issues no GetCapabilities request and
\* sends its request to the discovered address.
C27_MediaURLIsCached ==
    (call.op \in {"GetStreamProfiles", "GetStreamUri"} /\ call.before.ok) =>
        /\ ~Contains(call.steps, <<"GetCapabilities">>)
        /\ call.url = call.before.url

============================================================================
